---- MODULE Spec2Model ----
(***************************************************************************)
(* A model of zonefile-js: parseZone (mod.ts, delegating to the generated  *)
(* Peggy parser _internal/parser.js) and serializeEntry / serializeZone    *)
(* (serialize.ts).                                                         *)
(*                                                                         *)
(* Text is modelled as a sequence of one-character strings, so that        *)
(* padding, joining, trimming, quoting, lexing and number formatting are   *)
(* computed character by character as the code computes them.              *)
(*                                                                         *)
(* The serializer is translated from serialize.ts.  The grammar engine and *)
(* the resolution pass live in _internal/parser.peggy / parser.js, which   *)
(* are not part of the sources at hand (only the declaration               *)
(* parser.d.ts, the caller mod.ts and the tests mod_test.ts are); they are *)
(* modelled from the design document and the tests.                        *)
(***************************************************************************)
EXTENDS Integers, Sequences, FiniteSets, TLC

(***************************************************************************)
(* Characters and JavaScript string primitives                             *)
(***************************************************************************)
SP == " "
TAB == "\t"
NL == "\n"
QUOTE == "\""

\* ttl: number | null  (mod.ts RRecord.ttl); null is modelled as -1
NULL == -1

Digits == <<"0", "1", "2", "3", "4", "5", "6", "7", "8", "9">>

DigitSet == {Digits[i] : i \in 1..10}

DigitVal(c) == (CHOOSE i \in 1..10 : Digits[i] = c) - 1

RECURSIVE toString(_)
\* Number.prototype.toString() / template conversion of a non-negative integer
toString(n) == IF n < 10 THEN <<Digits[n + 1]>>
               ELSE toString(n \div 10) \o <<Digits[(n % 10) + 1]>>

RECURSIVE Spaces(_)
Spaces(n) == IF n <= 0 THEN <<>> ELSE <<SP>> \o Spaces(n - 1)

\* variant that pads on the left (String.prototype.padStart)
padStart(s, n) == Spaces(n - Len(s)) \o s

\* variant that cuts the value to the width of the column
padEndTruncating(s, n) ==
    LET padded == s \o [i \in 1..(n - Len(s)) |-> " "]
    IN  SubSeq(padded, 1, n)

\* String.prototype.padEnd(n): pads with spaces on the right, never truncates
padEnd(s, n) == s \o Spaces(n - Len(s))

\* String.prototype.includes(c) for a single character c
includes(s, c) == \E i \in 1..Len(s) : s[i] = c

WhiteSpace == {SP, TAB, NL}

RECURSIVE trimEnd(_)
\* String.prototype.trimEnd()
trimEnd(s) == IF s # <<>> /\ s[Len(s)] \in WhiteSpace
              THEN trimEnd(SubSeq(s, 1, Len(s) - 1))
              ELSE s

RECURSIVE join(_, _)
\* Array.prototype.join(sep)
join(parts, sep) == IF parts = <<>> THEN <<>>
                    ELSE IF Len(parts) = 1 THEN parts[1]
                    ELSE parts[1] \o sep \o join(Tail(parts), sep)

\* variant that leaves the quotes out
unquoted(s) == s

\* `"${s}"`
quoted(s) == <<QUOTE>> \o s \o <<QUOTE>>

(***************************************************************************)
(* The record-type mnemonics (mod.ts, union type Record) and their text    *)
(***************************************************************************)
MnemonicText ==
    [SOA    |-> <<"S", "O", "A">>,
     NS     |-> <<"N", "S">>,
     MX     |-> <<"M", "X">>,
     A      |-> <<"A">>,
     AAAA   |-> <<"A", "A", "A", "A">>,
     CNAME  |-> <<"C", "N", "A", "M", "E">>,
     PTR    |-> <<"P", "T", "R">>,
     TXT    |-> <<"T", "X", "T">>,
     SRV    |-> <<"S", "R", "V">>,
     CAA    |-> <<"C", "A", "A">>,
     DNSKEY |-> <<"D", "N", "S", "K", "E", "Y">>,
     DS     |-> <<"D", "S">>,
     RRSIG  |-> <<"R", "R", "S", "I", "G">>,
     NSEC   |-> <<"N", "S", "E", "C">>,
     TLSA   |-> <<"T", "L", "S", "A">>,
     SSHFP  |-> <<"S", "S", "H", "F", "P">>,
     DNAME  |-> <<"D", "N", "A", "M", "E">>,
     NAPTR  |-> <<"N", "A", "P", "T", "R">>,
     LOC    |-> <<"L", "O", "C">>,
     HINFO  |-> <<"H", "I", "N", "F", "O">>,
     SPF    |-> <<"S", "P", "F">>,
     ZONEMD |-> <<"Z", "O", "N", "E", "M", "D">>]

\* variant of the union with the last member left out
MnemonicsWithoutZONEMD == DOMAIN MnemonicText \ {"ZONEMD"}

Mnemonics == DOMAIN MnemonicText

\* Directive.name is '$ORIGIN' or '$TTL' (mod.ts, interface Directive)
DirectiveText ==
    ("$ORIGIN" :> <<"$", "O", "R", "I", "G", "I", "N">>) @@
    ("$TTL" :> <<"$", "T", "T", "L">>)

\* the data shapes of mod.ts (interfaces SOAData .. ZONEMDData): the fields of
\* each record type in declaration order, with their TypeScript types
Field(n, t) == [n |-> n, t |-> t]

DataShape ==
    [SOA    |-> <<Field("mname", "string"), Field("rname", "string"), Field("serial",
                  "number"), Field("refresh", "number"), Field("retry", "number"),
                  Field("expire", "number"), Field("minimum", "number")>>,
     NS     |-> <<Field("ns", "string")>>,
     MX     |-> <<Field("priority", "number"), Field("mx", "string")>>,
     A      |-> <<Field("ip", "string")>>,
     AAAA   |-> <<Field("ip", "string")>>,
     CNAME  |-> <<Field("cname", "string")>>,
     PTR    |-> <<Field("ptrdname", "string")>>,
     TXT    |-> <<Field("txt", "string")>>,
     SRV    |-> <<Field("priority", "number"), Field("weight", "number"),
                  Field("port", "number"), Field("target", "string")>>,
     CAA    |-> <<Field("flags", "number"), Field("tag", "string"), Field("value",
                  "string")>>,
     DNSKEY |-> <<Field("flags", "number"), Field("protocol", "number"),
                  Field("algorithm", "number"), Field("publicKey", "string")>>,
     DS     |-> <<Field("keyTag", "number"), Field("algorithm", "number"),
                  Field("digestType", "number"), Field("digest", "string")>>,
     RRSIG  |-> <<Field("typeCovered", "string"), Field("algorithm", "number"),
                  Field("labels", "number"), Field("originalTTL", "number"),
                  Field("expiration", "number"), Field("inception", "number"),
                  Field("keyTag", "number"), Field("signer", "string"),
                  Field("signature", "string")>>,
     NSEC   |-> <<Field("nextDomain", "string"), Field("recordTypes",
                  "string[]")>>,
     TLSA   |-> <<Field("usage", "number"), Field("selector", "number"),
                  Field("matchingType", "number"), Field("certificate",
                  "string")>>,
     SSHFP  |-> <<Field("algorithm", "number"), Field("fingerprintType",
                  "number"), Field("fingerprint", "string")>>,
     DNAME  |-> <<Field("target", "string")>>,
     NAPTR  |-> <<Field("order", "number"), Field("preference", "number"),
                  Field("flags", "string"), Field("service", "string"),
                  Field("regexp", "string"), Field("replacement", "string")>>,
     LOC    |-> <<Field("content", "string")>>,
     HINFO  |-> <<Field("cpu", "string"), Field("os", "string")>>,
     SPF    |-> <<Field("text", "string")>>,
     ZONEMD |-> <<Field("serial", "number"), Field("scheme", "number"),
                  Field("hashAlgo", "number"), Field("digest", "string")>>]

\* the cases of the switch of serializeRecordData
SerializerCases ==
    {"SOA", "NS", "MX", "A", "AAAA", "CNAME", "PTR", "TXT", "SRV", "CAA",
     "DNSKEY", "DS", "RRSIG", "NSEC", "TLSA", "SSHFP", "DNAME", "NAPTR",
     "LOC", "HINFO", "SPF", "ZONEMD"}

(***************************************************************************)
(* serialize.ts                                                            *)
(***************************************************************************)
\* `${directive.name} ${directive.value}`: value is a string for $ORIGIN and
\* a number for $TTL (mod.ts Directive.value: string | number)
serializeDirective(directive) ==
    DirectiveText[directive.name] \o <<SP>> \o
    (IF directive.name = "$TTL" THEN toString(directive.value)
                               ELSE directive.value)

sp(parts) == join(parts, <<SP>>)

serializeRecordData(record) ==
    LET d == record.data
        t == record.recordType
    IN  CASE t = "SOA" -> sp(<<d.mname, d.rname, toString(d.serial),
                               toString(d.refresh), toString(d.retry),
                               toString(d.expire), toString(d.minimum)>>)
          [] t = "NS" -> d.ns
          [] t = "MX" -> sp(<<toString(d.priority), d.mx>>)
          [] t = "A" -> d.ip
          [] t = "AAAA" -> d.ip
          [] t = "CNAME" -> d.cname
          [] t = "PTR" -> d.ptrdname
          [] t = "TXT" -> IF includes(d.txt, SP) \/ includes(d.txt, TAB)
                          THEN quoted(d.txt) ELSE d.txt
          [] t = "SRV" -> sp(<<toString(d.priority), toString(d.weight),
                               toString(d.port), d.target>>)
          [] t = "CAA" -> sp(<<toString(d.flags), d.tag, quoted(d.value)>>)
          [] t = "DNSKEY" -> sp(<<toString(d.flags), toString(d.protocol),
                                  toString(d.algorithm), d.publicKey>>)
          [] t = "DS" -> sp(<<toString(d.keyTag), toString(d.algorithm),
                              toString(d.digestType), d.digest>>)
          [] t = "RRSIG" -> sp(<<d.typeCovered, toString(d.algorithm),
                                 toString(d.labels), toString(d.originalTTL),
                                 toString(d.expiration), toString(d.inception),
                                 toString(d.keyTag), d.signer, d.signature>>)
          [] t = "NSEC" -> sp(<<d.nextDomain, sp(d.recordTypes)>>)
          [] t = "TLSA" -> sp(<<toString(d.usage), toString(d.selector),
                                toString(d.matchingType), d.certificate>>)
          [] t = "SSHFP" -> sp(<<toString(d.algorithm),
                                 toString(d.fingerprintType), d.fingerprint>>)
          [] t = "DNAME" -> d.target
          [] t = "NAPTR" -> sp(<<toString(d.order), toString(d.preference),
                                 quoted(d.flags), quoted(d.service),
                                 quoted(d.regexp), d.replacement>>)
          [] t = "LOC" -> d.content
          [] t = "HINFO" -> sp(<<quoted(d.cpu), quoted(d.os)>>)
          [] t = "SPF" -> quoted(d.text)
          [] t = "ZONEMD" -> sp(<<toString(d.serial), toString(d.scheme),
                                  toString(d.hashAlgo), d.digest>>)

\* variant that writes the ttl of every record that has one, the records
\* with an empty domain included
serializeRecordAlwaysTtl(record) ==
    trimEnd(sp(<<padEnd(record.domain, 18),
                 IF record.ttl # NULL THEN padEnd(toString(record.ttl), 6)
                 ELSE padEnd(<<>>, 6),
                 padEnd(record.class, 4),
                 padEnd(MnemonicText[record.recordType], 8),
                 serializeRecordData(record)>>))

serializeRecord(record) ==
    LET ttlColumn == IF record.ttl # NULL /\ record.domain # <<>>
                     THEN padEnd(toString(record.ttl), 6)
                     ELSE padEnd(<<>>, 6)
        parts == <<padEnd(record.domain, 18),
                   ttlColumn,
                   padEnd(record.class, 4),
                   padEnd(MnemonicText[record.recordType], 8),
                   serializeRecordData(record)>>
    IN  trimEnd(sp(parts))

serializeEntry(entry) ==
    IF entry.type = "directive" THEN serializeDirective(entry)
                                ELSE serializeRecord(entry)

RECURSIVE serializeLines(_, _, _)
\* the for-loop of serializeZone: lines pushed for entries, given lastRecordType
serializeLines(entries, includeBlankLines, lastRecordType) ==
    IF entries = <<>> THEN <<>>
    ELSE LET entry == Head(entries)
             isRec == entry.type = "record"
             blank == IF /\ includeBlankLines
                         /\ isRec
                         /\ lastRecordType # "null"
                         /\ lastRecordType # entry.recordType
                      THEN <<(<<>>)>> ELSE <<>>
             last == IF isRec THEN entry.recordType ELSE lastRecordType
         IN  blank \o <<serializeEntry(entry)>>
                   \o serializeLines(Tail(entries), includeBlankLines, last)

\* variant that leaves the trailing newline out
serializeZoneNoTrailingNewline(entries, includeBlankLines) ==
    join(serializeLines(entries, includeBlankLines, "null"), <<NL>>)

RECURSIVE serializeLinesApart(_, _, _)
serializeLinesApart(entries, includeBlankLines, lastRecordType) ==
    IF entries = <<>> THEN <<>>
    ELSE LET entry == Head(entries)
             isRec == entry.type = "record"
             blank == IF /\ includeBlankLines
                         /\ isRec
                         /\ lastRecordType # "null"
                      THEN <<(<<>>)>> ELSE <<>>
             last == IF isRec THEN entry.recordType ELSE lastRecordType
         IN  blank \o <<serializeEntry(entry)>>
                   \o serializeLinesApart(Tail(entries), includeBlankLines, last)

\* variant that does not compare the record types: a blank line in front of
\* every record but the first
serializeZoneBlankBetweenRecords(entries, includeBlankLines) ==
    join(serializeLinesApart(entries, includeBlankLines, "null"), <<NL>>)
        \o <<NL>>

RECURSIVE serializeLinesReset(_, _, _)
serializeLinesReset(entries, includeBlankLines, lastRecordType) ==
    IF entries = <<>> THEN <<>>
    ELSE LET entry == Head(entries)
             isRec == entry.type = "record"
             blank == IF /\ includeBlankLines
                         /\ isRec
                         /\ lastRecordType # "null"
                         /\ lastRecordType # entry.recordType
                      THEN <<(<<>>)>> ELSE <<>>
             last == IF isRec THEN entry.recordType ELSE "null"
         IN  blank \o <<serializeEntry(entry)>>
                   \o serializeLinesReset(Tail(entries), includeBlankLines, last)

\* variant that forgets the last record type at a directive
serializeZoneResetsOnDirective(entries, includeBlankLines) ==
    join(serializeLinesReset(entries, includeBlankLines, "null"), <<NL>>)
        \o <<NL>>

RECURSIVE serializeLinesMarked(_, _, _)
serializeLinesMarked(entries, includeBlankLines, lastRecordType) ==
    IF entries = <<>> THEN <<>>
    ELSE LET entry == Head(entries)
             isRec == entry.type = "record"
             mark == IF /\ includeBlankLines
                        /\ isRec
                        /\ lastRecordType # "null"
                        /\ lastRecordType # entry.recordType
                     THEN <<(<<";">>)>> ELSE <<>>
             last == IF isRec THEN entry.recordType ELSE lastRecordType
         IN  mark \o <<serializeEntry(entry)>>
                  \o serializeLinesMarked(Tail(entries), includeBlankLines, last)

\* variant whose separator line holds a comment mark
serializeZoneMarkedSeparator(entries, includeBlankLines) ==
    join(serializeLinesMarked(entries, includeBlankLines, "null"), <<NL>>)
        \o <<NL>>

serializeZone(entries, includeBlankLines) ==
    join(serializeLines(entries, includeBlankLines, "null"), <<NL>>) \o <<NL>>

(***************************************************************************)
(* Grammar engine (_internal/parser.peggy): lexical rules                  *)
(***************************************************************************)
\* the bare atom line[start..i-1] (start = 0: no atom in progress)
Flush(line, start, i) ==
    IF start = 0 THEN <<>>
    ELSE <<[k |-> "bare", s |-> SubSeq(line, start, i - 1)]>>

\* the first position from i on whose character is in S (is not in S when
\* inside is FALSE), or Len(line) + 1 when there is none
Scan(line, i, S, inside) ==
    LET P == {j \in i..Len(line) : (line[j] \in S) = inside}
    IN  IF P = {} THEN Len(line) + 1
        ELSE CHOOSE j \in P : \A k \in P : j <= k

\* the characters that end a bare atom
Delimiters == {";", SP, TAB, QUOTE, "(", ")"}

RECURSIVE LexFrom(_, _, _, _)
\* The items of one physical line from position i on: bare atoms, quoted
\* strings (unquoted on capture), "(" and ")" marks; a ";" outside quotes
\* ends the line; a quote left open at the end of the line is an error.
\* start is the position where the atom or string in progress began.
\* Runs of whitespace, of atom characters and of quoted characters are
\* passed over in one step.
LexFrom(line, i, start, inq) ==
    IF i > Len(line)
    THEN IF inq THEN <<[k |-> "error", s |-> <<>>]>>
         ELSE Flush(line, start, i)
    ELSE LET c == line[i]
         IN  IF inq
             THEN IF c = QUOTE
                  THEN <<[k |-> "quoted", s |-> SubSeq(line, start, i - 1)]>>
                           \o LexFrom(line, i + 1, 0, FALSE)
                  ELSE LexFrom(line, Scan(line, i + 1, {QUOTE}, TRUE),
                               start, TRUE)
             ELSE CASE c = ";" -> Flush(line, start, i)
                    [] c \in {SP, TAB} ->
                           Flush(line, start, i)
                               \o LexFrom(line,
                                          Scan(line, i + 1, {SP, TAB}, FALSE),
                                          0, FALSE)
                    [] c = QUOTE ->
                           Flush(line, start, i)
                               \o LexFrom(line, i + 1, i + 1, TRUE)
                    [] c = "(" ->
                           Flush(line, start, i)
                               \o <<[k |-> "open", s |-> <<>>]>>
                               \o LexFrom(line, i + 1, 0, FALSE)
                    [] c = ")" ->
                           Flush(line, start, i)
                               \o <<[k |-> "close", s |-> <<>>]>>
                               \o LexFrom(line, i + 1, 0, FALSE)
                    [] OTHER -> LexFrom(line,
                                        Scan(line, i + 1, Delimiters, TRUE),
                                        IF start = 0 THEN i ELSE start, FALSE)

LexLine(line) == LexFrom(line, 1, 0, FALSE)

RECURSIVE SplitLines(_, _, _)
\* the physical lines of a text (newline-delimited) from position i on;
\* start is the position where the line in progress began
SplitLines(text, i, start) ==
    LET N == {j \in i..Len(text) : text[j] = NL}
    IN  IF N = {}
        THEN (IF start > Len(text) THEN <<>>
              ELSE <<SubSeq(text, start, Len(text))>>)
        ELSE LET j == CHOOSE j \in N : \A k \in N : j <= k
             IN  <<SubSeq(text, start, j - 1)>>
                     \o SplitLines(text, j + 1, j + 1)

RECURSIVE ParenScan(_, _)
\* the state of the continuation region after the items: "open", "closed",
\* or "error" for a ")" without "(", a nested "(" or a lexical error
ParenScan(items, open) ==
    IF items = <<>> THEN (IF open THEN "open" ELSE "closed")
    ELSE LET it == Head(items)
         IN  CASE it.k = "error" -> "error"
               [] it.k = "open" -> IF open THEN "error"
                                   ELSE ParenScan(Tail(items), TRUE)
               [] it.k = "close" -> IF open THEN ParenScan(Tail(items), FALSE)
                                    ELSE "error"
               [] OTHER -> ParenScan(Tail(items), open)

Tokens(items) == SelectSeq(items, LAMBDA it : it.k \in {"bare", "quoted"})

RECURSIVE LogicalLines(_, _, _, _)
\* Logical lines of the text: inside "(" ... ")" newlines and comments are
\* whitespace; blank lines are discarded.  lead records whether the logical
\* line starts with whitespace (owner name omitted).  A failure is reported
\* as a line with err = TRUE.
LogicalLines(plines, i, open, cur) ==
    IF i > Len(plines)
    THEN IF open THEN <<[err |-> TRUE, lead |-> FALSE, toks |-> <<>>]>>
         ELSE <<>>
    ELSE LET pl == plines[i]
             items == LexLine(pl)
             after == ParenScan(items, open)
             start == IF open THEN cur
                      ELSE [err |-> FALSE,
                            lead |-> pl # <<>> /\ pl[1] \in {SP, TAB},
                            toks |-> <<>>]
             line == [start EXCEPT !.toks = @ \o Tokens(items)]
         IN  CASE after = "error" ->
                      <<[err |-> TRUE, lead |-> FALSE, toks |-> <<>>]>>
               [] after = "open" -> LogicalLines(plines, i + 1, TRUE, line)
               [] OTHER ->
                      (IF line.toks = <<>> THEN <<>> ELSE <<line>>)
                          \o LogicalLines(plines, i + 1, FALSE, line)

(***************************************************************************)
(* Grammar engine: lexical classes of a token                              *)
(***************************************************************************)
IsInt(tok) == /\ tok.k = "bare"
              /\ \A i \in 1..Len(tok.s) : tok.s[i] \in DigitSet

RECURSIVE parseInt(_)
\* base-10 value of a digit string
parseInt(s) == IF s = <<>> THEN 0
               ELSE parseInt(SubSeq(s, 1, Len(s) - 1)) * 10
                        + DigitVal(s[Len(s)])

HexSet == DigitSet \cup {"a", "b", "c", "d", "e", "f",
                         "A", "B", "C", "D", "E", "F"}

\* IPv6 textual grammar: groups of hex digits separated by ":"
IsIPv6(tok) == /\ tok.k = "bare"
               /\ \A i \in 1..Len(tok.s) : tok.s[i] \in HexSet \cup {":"}
               /\ includes(tok.s, ":")

\* class tokens recognised before the type
ClassText == {<<"I", "N">>, <<"C", "H">>, <<"H", "S">>}

IsClass(tok) == tok.k = "bare" /\ tok.s \in ClassText

IsMnemonic(tok) == /\ tok.k = "bare"
                   /\ \E m \in Mnemonics : MnemonicText[m] = tok.s

MnemonicOf(tok) == CHOOSE m \in Mnemonics : MnemonicText[m] = tok.s

(***************************************************************************)
(* Record field mappers: the rdata layout of each mnemonic                 *)
(***************************************************************************)
F(n, k) == [n |-> n, k |-> k]

\* kinds: "int" integer, "name" bare atom, "text" quoted string or bare
\* atom, "ip6" IPv6 literal, "list" one or more bare atoms to the end of the
\* line, "rest" the remaining atoms as one opaque string
FieldTable ==
    [SOA    |-> <<F("mname", "name"), F("rname", "name"), F("serial", "int"),
                  F("refresh", "int"), F("retry", "int"), F("expire", "int"),
                  F("minimum", "int")>>,
     NS     |-> <<F("ns", "name")>>,
     MX     |-> <<F("priority", "int"), F("mx", "name")>>,
     A      |-> <<F("ip", "name")>>,
     AAAA   |-> <<F("ip", "ip6")>>,
     CNAME  |-> <<F("cname", "name")>>,
     PTR    |-> <<F("ptrdname", "name")>>,
     TXT    |-> <<F("txt", "text")>>,
     SRV    |-> <<F("priority", "int"), F("weight", "int"), F("port", "int"),
                  F("target", "name")>>,
     CAA    |-> <<F("flags", "int"), F("tag", "text"), F("value", "text")>>,
     DNSKEY |-> <<F("flags", "int"), F("protocol", "int"),
                  F("algorithm", "int"), F("publicKey", "name")>>,
     DS     |-> <<F("keyTag", "int"), F("algorithm", "int"),
                  F("digestType", "int"), F("digest", "name")>>,
     RRSIG  |-> <<F("typeCovered", "name"), F("algorithm", "int"),
                  F("labels", "int"), F("originalTTL", "int"),
                  F("expiration", "int"), F("inception", "int"),
                  F("keyTag", "int"), F("signer", "name"),
                  F("signature", "name")>>,
     NSEC   |-> <<F("nextDomain", "name"), F("recordTypes", "list")>>,
     TLSA   |-> <<F("usage", "int"), F("selector", "int"),
                  F("matchingType", "int"), F("certificate", "name")>>,
     SSHFP  |-> <<F("algorithm", "int"), F("fingerprintType", "int"),
                  F("fingerprint", "name")>>,
     DNAME  |-> <<F("target", "name")>>,
     NAPTR  |-> <<F("order", "int"), F("preference", "int"),
                  F("flags", "text"), F("service", "text"),
                  F("regexp", "text"), F("replacement", "name")>>,
     LOC    |-> <<F("content", "rest")>>,
     HINFO  |-> <<F("cpu", "text"), F("os", "text")>>,
     SPF    |-> <<F("text", "text")>>,
     ZONEMD |-> <<F("serial", "int"), F("scheme", "int"),
                  F("hashAlgo", "int"), F("digest", "name")>>]

TokText(toks) == [i \in 1..Len(toks) |-> toks[i].s]

NoMatch == [ok |-> FALSE, vals |-> <<>>]

RECURSIVE ParseFields(_, _)
\* Match the tokens against the field layout: exactly the fields the
\* mnemonic requires, each of its lexical class.  vals is the sequence of
\* field values in layout order; ok is FALSE when the match fails.
ParseFields(table, toks) ==
    IF table = <<>> THEN [ok |-> toks = <<>>, vals |-> <<>>]
    ELSE IF toks = <<>> THEN NoMatch
    ELSE LET k == Head(table).k
             tok == Head(toks)
             bare == \A i \in 1..Len(toks) : toks[i].k = "bare"
             more == ParseFields(Tail(table), Tail(toks))
             one(v) == IF more.ok
                       THEN [ok |-> TRUE, vals |-> <<v>> \o more.vals]
                       ELSE NoMatch
             all(v) == IF bare THEN [ok |-> TRUE, vals |-> <<v>>]
                       ELSE NoMatch
         IN  CASE k = "list" -> all(TokText(toks))
               [] k = "rest" -> all(sp(TokText(toks)))
               [] k = "int" -> IF IsInt(tok) THEN one(parseInt(tok.s))
                               ELSE NoMatch
               [] k = "ip6" -> IF IsIPv6(tok) THEN one(tok.s) ELSE NoMatch
               [] k = "name" -> IF tok.k = "bare" THEN one(tok.s)
                                ELSE NoMatch
               [] OTHER -> one(tok.s)

\* the typed data shape: field names of the layout mapped to the values
DataOf(table, vals) ==
    [n \in {table[i].n : i \in 1..Len(table)} |->
        vals[CHOOSE i \in 1..Len(table) : table[i].n = n]]

(***************************************************************************)
(* Grammar engine: per-line grammar  [domain] [ttl] [class] type rdata...  *)
(***************************************************************************)
SyntaxError == [type |-> "error"]

\* $ORIGIN <domain> and $TTL <integer>; any other $-token is an error
ParseDirective(toks) ==
    IF Len(toks) # 2 \/ toks[2].k # "bare" THEN SyntaxError
    ELSE IF toks[1].s = DirectiveText["$ORIGIN"]
         THEN [type |-> "directive", name |-> "$ORIGIN", value |-> toks[2].s]
    ELSE IF toks[1].s = DirectiveText["$TTL"] /\ IsInt(toks[2])
         THEN [type |-> "directive", name |-> "$TTL",
               value |-> parseInt(toks[2].s)]
    ELSE SyntaxError

\* variant that leaves the class empty when the line has no class token
ParseHeaderNoDefaultClass(toks) ==
    LET n == Len(toks)
        ttlAt(i) == i <= n /\ IsInt(toks[i])
        classAt(i) == i <= n /\ IsClass(toks[i])
    IN  IF ttlAt(1)
        THEN [ttl |-> parseInt(toks[1].s),
              class |-> IF classAt(2) THEN toks[2].s ELSE <<>>,
              used |-> IF classAt(2) THEN 2 ELSE 1]
        ELSE IF classAt(1)
        THEN [ttl |-> IF ttlAt(2) THEN parseInt(toks[2].s) ELSE NULL,
              class |-> toks[1].s,
              used |-> IF ttlAt(2) THEN 2 ELSE 1]
        ELSE [ttl |-> NULL, class |-> <<>>, used |-> 0]

\* optional ttl and class, in either order, in front of the type
ParseHeader(toks) ==
    LET n == Len(toks)
        ttlAt(i) == i <= n /\ IsInt(toks[i])
        classAt(i) == i <= n /\ IsClass(toks[i])
    IN  IF ttlAt(1)
        THEN [ttl |-> parseInt(toks[1].s),
              class |-> IF classAt(2) THEN toks[2].s ELSE <<"I", "N">>,
              used |-> IF classAt(2) THEN 2 ELSE 1]
        ELSE IF classAt(1)
        THEN [ttl |-> IF ttlAt(2) THEN parseInt(toks[2].s) ELSE NULL,
              class |-> toks[1].s,
              used |-> IF ttlAt(2) THEN 2 ELSE 1]
        ELSE [ttl |-> NULL, class |-> <<"I", "N">>, used |-> 0]

ParseRecord(line) ==
    LET toks == line.toks
        hasDomain == ~line.lead
        domain == IF hasDomain THEN toks[1].s ELSE <<>>
        afterDomain == IF hasDomain THEN Tail(toks) ELSE toks
        h == ParseHeader(afterDomain)
        rest == SubSeq(afterDomain, h.used + 1, Len(afterDomain))
    IN  IF hasDomain /\ toks[1].k # "bare" THEN SyntaxError
        ELSE IF rest = <<>> \/ ~IsMnemonic(rest[1]) THEN SyntaxError
        ELSE LET t == MnemonicOf(rest[1])
                 r == ParseFields(FieldTable[t], Tail(rest))
             IN  IF ~r.ok THEN SyntaxError
                 ELSE [type |-> "record", domain |-> domain, ttl |-> h.ttl,
                       class |-> h.class, recordType |-> t,
                       data |-> DataOf(FieldTable[t], r.vals)]

ParseLine(line) ==
    IF line.err THEN SyntaxError
    ELSE IF line.toks[1].k = "bare" /\ line.toks[1].s[1] = "$"
         THEN ParseDirective(line.toks)
         ELSE ParseRecord(line)

\* the raw entry sequence of a text: one entry per logical line
ParseLines(text) ==
    LET lines == LogicalLines(SplitLines(text, 1, 1), 1, FALSE, <<>>)
    IN  [i \in 1..Len(lines) |-> ParseLine(lines[i])]

HasError(entries) == \E i \in 1..Len(entries) : entries[i].type = "error"

(***************************************************************************)
(* Resolution pass: one left-to-right sweep with currentOrigin, currentTTL *)
(***************************************************************************)
\* the running origin and TTL are unset until a directive sets them
UNSET_ORIGIN == <<>>

\* variant without the test for the empty (omitted) owner name
expandDomainEmptyToo(domain, currentOrigin) ==
    IF domain = <<"@">> /\ currentOrigin # UNSET_ORIGIN THEN currentOrigin
    ELSE IF /\ (domain = <<>> \/ domain[Len(domain)] # ".")
            /\ currentOrigin # UNSET_ORIGIN
         THEN domain \o <<".">> \o currentOrigin
    ELSE domain

expandDomain(domain, currentOrigin) ==
    IF domain = <<"@">> /\ currentOrigin # UNSET_ORIGIN THEN currentOrigin
    ELSE IF /\ domain # <<>>
            /\ domain[Len(domain)] # "."
            /\ currentOrigin # UNSET_ORIGIN
         THEN domain \o <<".">> \o currentOrigin
    ELSE domain

inheritTtl(ttl, currentTTL) ==
    IF ttl = NULL /\ currentTTL # NULL THEN currentTTL ELSE ttl

RECURSIVE Resolve(_, _, _, _)
Resolve(entries, options, currentOrigin, currentTTL) ==
    IF entries = <<>> THEN <<>>
    ELSE LET e == Head(entries)
         IN  IF e.type = "directive"
             THEN <<e>> \o Resolve(Tail(entries), options,
                      IF e.name = "$ORIGIN" THEN e.value ELSE currentOrigin,
                      IF e.name = "$TTL" THEN e.value ELSE currentTTL)
             ELSE <<[e EXCEPT
                      !.ttl = IF options.inheritTTL
                              THEN inheritTtl(@, currentTTL) ELSE @,
                      !.domain = IF options.expandDomains
                                 THEN expandDomain(@, currentOrigin) ELSE @]>>
                  \o Resolve(Tail(entries), options, currentOrigin, currentTTL)

\* parser.parse(input, options) of _internal/parser.js (parser.d.ts): the
\* entry sequence, or Throws when any line violates the grammar
Throws == <<SyntaxError>>

parse(input, options) ==
    LET raw == ParseLines(input)
    IN  IF HasError(raw) THEN Throws
        ELSE Resolve(raw, options, UNSET_ORIGIN, NULL)

(***************************************************************************)
(* mod.ts                                                                  *)
(***************************************************************************)
\* options?.expandDomains / options?.inheritTTL default to false
DefaultOptions == [expandDomains |-> FALSE, inheritTTL |-> FALSE]

\* variants of parseZone with a slip in the wrapper: the options are not
\* handed on; the options are forced on; directives are filtered out of the
\* result; the parser's error is swallowed; offending lines are skipped
parseZoneDropsOptions(zoneFileContent, options) ==
    parse(zoneFileContent, DefaultOptions)

parseZoneForcesOptions(zoneFileContent, options) ==
    parse(zoneFileContent, [expandDomains |-> TRUE, inheritTTL |-> TRUE])

parseZoneRecordsOnly(zoneFileContent, options) ==
    SelectSeq(parse(zoneFileContent, options), LAMBDA e : e.type # "directive")

parseZoneSwallowsError(zoneFileContent, options) ==
    IF parse(zoneFileContent, options) = Throws THEN <<>>
    ELSE parse(zoneFileContent, options)

parseZoneSkipsBadLines(zoneFileContent, options) ==
    Resolve(SelectSeq(ParseLines(zoneFileContent),
                      LAMBDA e : e.type # "error"),
            options, UNSET_ORIGIN, NULL)

\* dotted quad of four integers up to 255
IsIPv4(s) ==
    LET D == {j \in 1..Len(s) : s[j] = "."}
        E == D \cup {0, Len(s) + 1}
    IN  /\ Cardinality(D) = 3
        /\ \A a, b \in E :
               (a < b /\ ~\E c \in D : a < c /\ c < b) =>
                   /\ b - a > 1
                   /\ \A j \in (a + 1)..(b - 1) : s[j] \in DigitSet
                   /\ parseInt(SubSeq(s, a + 1, b - 1)) <= 255

\* variant that rejects a zone with an A record whose ip is not an IPv4
\* address
parseZoneValidatesIPv4(zoneFileContent, options) ==
    LET r == parse(zoneFileContent, options)
    IN  IF /\ r # Throws
           /\ \E i \in 1..Len(r) : /\ r[i].type = "record"
                                    /\ r[i].recordType = "A"
                                    /\ ~IsIPv4(r[i].data.ip)
        THEN Throws ELSE r

\* variant that collects the first $TTL directive of the zone before the
\* sweep, so that it also reaches the records in front of it
parseZoneHoistsTTL(zoneFileContent, options) ==
    LET entries == ParseLines(zoneFileContent)
        S == {j \in 1..Len(entries) : /\ entries[j].type = "directive"
                                      /\ entries[j].name = "$TTL"}
        first == CHOOSE j \in S : \A k \in S : j <= k
    IN  IF HasError(entries) THEN Throws
        ELSE Resolve(entries, options, UNSET_ORIGIN,
                     IF S = {} THEN NULL ELSE entries[first].value)

\* variant whose sweep also rewrites the class of a record it expands
parseZoneResolvesClass(zoneFileContent, options) ==
    LET r == parse(zoneFileContent, options)
    IN  IF r = Throws THEN Throws
        ELSE [i \in 1..Len(r) |->
                 IF r[i].type = "record" /\ options.expandDomains
                 THEN [r[i] EXCEPT !.class = <<>>] ELSE r[i]]

\* variant in which the sweep treats the two options as alternatives: the
\* TTL is inherited only where the domain is not expanded
parseZoneCouplesOptions(zoneFileContent, options) ==
    parse(zoneFileContent,
          [expandDomains |-> options.expandDomains,
           inheritTTL |-> options.inheritTTL /\ ~options.expandDomains])

\* variant that joins name and origin and then drops the final dot of the
\* expanded name
parseZoneDropsFinalDot(zoneFileContent, options) ==
    LET r == parse(zoneFileContent, options)
        entries == ParseLines(zoneFileContent)
    IN  IF r = Throws THEN Throws
        ELSE [i \in 1..Len(r) |->
                 IF r[i].type = "record" /\ r[i].domain # entries[i].domain
                 THEN [r[i] EXCEPT !.domain = SubSeq(@, 1, Len(@) - 1)]
                 ELSE r[i]]

parseZone(zoneFileContent, options) == parse(zoneFileContent, options)

(***************************************************************************)
(* Inputs: zone texts built from a catalogue of physical lines             *)
(***************************************************************************)
MaxLines == 4

\* words used by the catalogue lines
wOrigin == DirectiveText["$ORIGIN"]
wTtl == DirectiveText["$TTL"]
wIN == <<"I", "N">>
wA == MnemonicText["A"]
originA == <<"a", ".">>
originB == <<"b", ".">>

lineOriginA == sp(<<wOrigin, originA>>)
lineOriginB == sp(<<wOrigin, originB>>)
lineTtl5 == sp(<<wTtl, <<"5">> >>)
lineTtl70 == sp(<<wTtl, <<"7", "0">> >>)
\* relative owner name, no TTL, no class
lineRelative == sp(<< <<"w">>, wA, <<"1">> >>)
\* owner "@" with an explicit TTL
lineAt == sp(<< <<"@">>, <<"9">>, wIN, wA, <<"2">> >>)
\* fully-qualified owner name
lineFqdn == sp(<< <<"c", ".">>, wIN, wA, <<"3">> >>)
\* owner name omitted (the line starts with whitespace)
lineNoOwner == <<SP>> \o sp(<<wIN, wA, <<"4">> >>)
\* unknown record type
lineBadType == sp(<< <<"w">>, wIN, <<"B", "A", "D">>, <<"1">> >>)

OriginLines == <<lineOriginA, lineOriginB, lineRelative, lineAt, lineFqdn>>

TtlLines == <<lineTtl5, lineTtl70, lineNoOwner, lineAt>>

MixedLines == <<lineOriginA, lineTtl5, lineRelative, lineNoOwner, lineBadType>>

\* one line per record type, the quoting and header variants, directives
MaxTypeLines == 2

\* a. IN SOA n. r. 1 2 3 4 5   (SOA with its seven fields)
typeSOA ==
    <<"a", ".", " ", "I", "N", " ", "S", "O", "A", " ", "n", ".", " ", "r",
      ".", " ", "1", " ", "2", " ", "3", " ", "4", " ", "5">>

\* a. NS n.
typeNS ==
    <<"a", ".", " ", "N", "S", " ", "n", ".">>

\* a. 7 IN MX 10 m.   (TTL before class)
typeMX ==
    <<"a", ".", " ", "7", " ", "I", "N", " ", "M", "X", " ", "1", "0", " ",
      "m", ".">>

\* w IN 7 A 1.2   (class before TTL)
typeA ==
    <<"w", " ", "I", "N", " ", "7", " ", "A", " ", "1", ".", "2">>

\*  AAAA ::1   (owner name omitted)
typeAAAA ==
    <<" ", "A", "A", "A", "A", " ", ":", ":", "1">>

\* w CNAME c.
typeCNAME ==
    <<"w", " ", "C", "N", "A", "M", "E", " ", "c", ".">>

\* 1.0 PTR l.   (owner name starting with a digit)
typePTR ==
    <<"1", ".", "0", " ", "P", "T", "R", " ", "l", ".">>

\* w TXT "a b"   (quoted text with a space)
typeTXTquotedSpace ==
    <<"w", " ", "T", "X", "T", " ", "\"", "a", " ", "b", "\"">>

\* w TXT "ab"   (quoted text without whitespace)
typeTXTquoted ==
    <<"w", " ", "T", "X", "T", " ", "\"", "a", "b", "\"">>

\* w TXT ab   (unquoted single token)
typeTXTbare ==
    <<"w", " ", "T", "X", "T", " ", "a", "b">>

\* w TXT "a;b"   (quoted text with a semicolon and no whitespace)
typeTXTsemicolon ==
    <<"w", " ", "T", "X", "T", " ", "\"", "a", ";", "b", "\"">>

\* w SRV 1 2 3 t.
typeSRV ==
    <<"w", " ", "S", "R", "V", " ", "1", " ", "2", " ", "3", " ", "t", ".">>

\* w CAA 0 "issue" ";"   (quoted tag, value ";" (mod_test.ts CAA records))
typeCAA ==
    <<"w", " ", "C", "A", "A", " ", "0", " ", "\"", "i", "s", "s", "u",
      "e", "\"", " ", "\"", ";", "\"">>

\* w DNSKEY 256 3 8 Aw
typeDNSKEY ==
    <<"w", " ", "D", "N", "S", "K", "E", "Y", " ", "2", "5", "6", " ", "3",
      " ", "8", " ", "A", "w">>

\* w DS 1 8 2 CD
typeDS ==
    <<"w", " ", "D", "S", " ", "1", " ", "8", " ", "2", " ", "C", "D">>

\* w RRSIG A 8 2 60 3 4 5 a. kR
typeRRSIG ==
    <<"w", " ", "R", "R", "S", "I", "G", " ", "A", " ", "8", " ", "2", " ",
      "6", "0", " ", "3", " ", "4", " ", "5", " ", "a", ".", " ", "k", "R">>

\* w NSEC n. A NS
typeNSEC ==
    <<"w", " ", "N", "S", "E", "C", " ", "n", ".", " ", "A", " ", "N", "S">>

\* w TLSA 3 1 1 0C
typeTLSA ==
    <<"w", " ", "T", "L", "S", "A", " ", "3", " ", "1", " ", "1", " ", "0",
      "C">>

\* w SSHFP 2 1 12
typeSSHFP ==
    <<"w", " ", "S", "S", "H", "F", "P", " ", "2", " ", "1", " ", "1", "2">>

\* w DNAME t.
typeDNAME ==
    <<"w", " ", "D", "N", "A", "M", "E", " ", "t", ".">>

\* w NAPTR 1 2 "u" "E2U" "!^.*$!" .
typeNAPTR ==
    <<"w", " ", "N", "A", "P", "T", "R", " ", "1", " ", "2", " ", "\"",
      "u", "\"", " ", "\"", "E", "2", "U", "\"", " ", "\"", "!", "^", ".",
      "*", "$", "!", "\"", " ", ".">>

\* w LOC 52 N 4 E
typeLOC ==
    <<"w", " ", "L", "O", "C", " ", "5", "2", " ", "N", " ", "4", " ", "E">>

\* w HINFO "I" "L x"
typeHINFO ==
    <<"w", " ", "H", "I", "N", "F", "O", " ", "\"", "I", "\"", " ", "\"",
      "L", " ", "x", "\"">>

\* w HINFO I L   (unquoted HINFO fields)
typeHINFObare ==
    <<"w", " ", "H", "I", "N", "F", "O", " ", "I", " ", "L">>

\* w SPF "v=spf1 -all"
typeSPF ==
    <<"w", " ", "S", "P", "F", " ", "\"", "v", "=", "s", "p", "f", "1",
      " ", "-", "a", "l", "l", "\"">>

\* w ZONEMD 1 1 2 AB
typeZONEMD ==
    <<"w", " ", "Z", "O", "N", "E", "M", "D", " ", "1", " ", "1", " ", "2",
      " ", "A", "B">>

\* $ORIGIN a.
typeOrigin ==
    <<"$", "O", "R", "I", "G", "I", "N", " ", "a", ".">>

\* $TTL 007   (integer with leading zeros)
typeTtl ==
    <<"$", "T", "T", "L", " ", "0", "0", "7">>

\*  9 IN A 1   (owner name omitted, explicit TTL)
typeNoOwnerTtl ==
    <<" ", "9", " ", "I", "N", " ", "A", " ", "1">>

\* w IN BAD 1   (unknown mnemonic)
typeBad ==
    <<"w", " ", "I", "N", " ", "B", "A", "D", " ", "1">>

TypeLines == <<typeSOA, typeNS, typeMX, typeA, typeAAAA, typeCNAME,
               typePTR, typeTXTquotedSpace, typeTXTquoted, typeTXTbare,
               typeTXTsemicolon, typeSRV, typeCAA,
               typeDNSKEY, typeDS, typeRRSIG, typeNSEC, typeTLSA,
               typeSSHFP, typeDNAME, typeNAPTR, typeLOC, typeHINFO,
               typeHINFObare, typeSPF, typeZONEMD, typeOrigin, typeTtl,
               typeNoOwnerTtl, typeBad>>

\* lines that violate the grammar, and three that do not
MaxErrLines == 2

\* $INCLUDE f   (unsupported directive)
errInclude ==
    <<"$", "I", "N", "C", "L", "U", "D", "E", " ", "f">>

\* w IN INVALID 1   (unknown mnemonic (mod_test.ts invalid record type))
errUnknownType ==
    <<"w", " ", "I", "N", " ", "I", "N", "V", "A", "L", "I", "D", " ", "1">>

\* w IN a 1   (mnemonic not in upper case)
errLowercase ==
    <<"w", " ", "I", "N", " ", "a", " ", "1">>

\* w IN A   (missing record data)
errMissingData ==
    <<"w", " ", "I", "N", " ", "A">>

\* @ IN SOA n.   (SOA missing required fields)
errShortSOA ==
    <<"@", " ", "I", "N", " ", "S", "O", "A", " ", "n", ".">>

\* w IN MX abc m.   (non-numeric MX priority)
errMXpriority ==
    <<"w", " ", "I", "N", " ", "M", "X", " ", "a", "b", "c", " ", "m", ".">>

\* w IN SRV 10 60   (SRV with missing fields)
errShortSRV ==
    <<"w", " ", "I", "N", " ", "S", "R", "V", " ", "1", "0", " ", "6", "0">>

\* w DNSKEY 256 3 abc Aw   (non-numeric DNSKEY algorithm)
errDNSKEYalgorithm ==
    <<"w", " ", "D", "N", "S", "K", "E", "Y", " ", "2", "5", "6", " ", "3",
      " ", "a", "b", "c", " ", "A", "w">>

\* w CAA abc "issue" "x"   (non-numeric CAA flags)
errCAAflags ==
    <<"w", " ", "C", "A", "A", " ", "a", "b", "c", " ", "\"", "i", "s",
      "s", "u", "e", "\"", " ", "\"", "x", "\"">>

\* w A 1
okA ==
    <<"w", " ", "A", " ", "1">>

\* $TTL 5
okTtl ==
    <<"$", "T", "T", "L", " ", "5">>

\* w MX 1 m.
okMX ==
    <<"w", " ", "M", "X", " ", "1", " ", "m", ".">>

\* w TXT a b   (unquoted TXT text of two tokens (mod_test.ts TXT record with unquoted text containing spaces))
errTXTwords ==
    <<"w", " ", "T", "X", "T", " ", "a", " ", "b">>

\* w TXT "a b"
okTXTquoted ==
    <<"w", " ", "T", "X", "T", " ", "\"", "a", " ", "b", "\"">>

\* w IN TXT ab
okTXTbare ==
    <<"w", " ", "I", "N", " ", "T", "X", "T", " ", "a", "b">>

\* w A 999.999.999.999   (not an IPv4 address (mod_test.ts malformed IP address in A record))
okA999 ==
    <<"w", " ", "A", " ", "9", "9", "9", ".", "9", "9", "9", ".", "9", "9",
      "9", ".", "9", "9", "9">>

\* w AAAA zz::1   (not an IPv6 address (mod_test.ts malformed IPv6 address in AAAA record))
errAAAA ==
    <<"w", " ", "A", "A", "A", "A", " ", "z", "z", ":", ":", "1">>

\* w AAAA 2001:db8::1
okAAAA ==
    <<"w", " ", "A", "A", "A", "A", " ", "2", "0", "0", "1", ":", "d", "b",
      "8", ":", ":", "1">>

ErrorLines == <<errInclude, errUnknownType, errLowercase, errMissingData,
                errShortSOA, errMXpriority, errShortSRV,
                errDNSKEYalgorithm, errCAAflags, okA, okTtl, okMX,
                errTXTwords, okTXTquoted, okTXTbare, okA999, errAAAA, okAAAA>>

\* physical lines with parentheses, comments and blank lines
MaxLayoutLines == 3

\* a. IN SOA n. r. ( 1 ; serial   (an SOA record opens a continuation region; a comment follows)
layOpen ==
    <<"a", ".", " ", "I", "N", " ", "S", "O", "A", " ", "n", ".", " ", "r",
      ".", " ", "(", " ", "1", " ", ";", " ", "s", "e", "r", "i", "a", "l">>

\*   2 3 ; retry   (inside lines of the region, indented, with comments)
layMid ==
    <<" ", " ", "2", " ", "3", " ", ";", " ", "r", "e", "t", "r", "y">>

\*   4 5 ) ; end   (the region closes; a comment follows)
layClose ==
    <<" ", " ", "4", " ", "5", " ", ")", " ", ";", " ", "e", "n", "d">>

\* a. IN SOA n. r. ( 1 2 3 4 5 )   (a region opened and closed on one physical line)
layOneLine ==
    <<"a", ".", " ", "I", "N", " ", "S", "O", "A", " ", "n", ".", " ", "r",
      ".", " ", "(", " ", "1", " ", "2", " ", "3", " ", "4", " ", "5", " ",
      ")">>

\* ; c   (a comment line)
layComment ==
    <<";", " ", "c">>

\* (a blank line)
layBlank == <<>>

\*   <tab>   (a whitespace-only line)
laySpaces ==
    <<" ", " ", "\t">>

\* w A 1 ; c   (a record with a trailing comment)
layTrailing ==
    <<"w", " ", "A", " ", "1", " ", ";", " ", "c">>

\* $TTL 5; c   (a directive with a comment right behind its value)
layTtlComment ==
    <<"$", "T", "T", "L", " ", "5", ";", " ", "c">>

LayoutLines == <<layOpen, layMid, layClose, layOneLine, typeSOA, layComment,
                 layBlank, laySpaces, layTrailing, layTtlComment, okA, okTtl>>

RECURSIVE TextOf(_, _)
\* the text whose physical lines are catalogue[picks[1]], catalogue[picks[2]]..
TextOf(catalogue, picks) ==
    IF picks = <<>> THEN <<>>
    ELSE catalogue[Head(picks)] \o <<NL>> \o TextOf(catalogue, Tail(picks))

ZoneTexts(catalogue, n) ==
    {TextOf(catalogue, p) :
        p \in UNION {[1..k -> 1..Len(catalogue)] : k \in 0..n}}

OptionSet == [expandDomains : BOOLEAN, inheritTTL : BOOLEAN]

(***************************************************************************)
(* Inputs of the serializer: entries a caller builds (mod.ts ZoneEntry)    *)
(***************************************************************************)
MaxEntries == 3

\* {type: 'directive', name: '$ORIGIN', value: 'a.'}
entryOrigin ==
    [type |-> "directive", name |-> "$ORIGIN", value |-> <<"a", ".">>]

\* {type: 'directive', name: '$TTL', value: 3600}
entryTtl ==
    [type |-> "directive", name |-> "$TTL", value |-> 3600]

\* the A record of serializeEntry's documentation
entryDocA ==
    [type |-> "record", domain |-> <<"w", "w", "w">>, ttl |-> 3600, class |->
     <<"I", "N">>, recordType |-> "A", data |-> [ip |-> <<"1", "9", "2", ".",
     "0", ".", "2", ".", "1">>]]

\* the line that the documentation of serializeEntry gives for entryDocA:
\* "www               3600   IN    A         192.0.2.1"
entryDocALine ==
    <<"w", "w", "w", " ", " ", " ", " ", " ", " ", " ", " ", " ", " ", " ",
      " ", " ", " ", " ", "3", "6", "0", "0", " ", " ", " ", "I", "N", " ",
      " ", " ", " ", "A", " ", " ", " ", " ", " ", " ", " ", " ", " ", "1",
      "9", "2", ".", "0", ".", "2", ".", "1">>

\* an A record with the empty domain and a ttl
entryNoOwnerA ==
    [type |-> "record", domain |-> <<>>, ttl |-> 300, class |-> <<"I", "N">>,
     recordType |-> "A", data |-> [ip |-> <<"1", ".", "2">>]]

\* an A record whose ip holds a space and a quote
entrySpacedA ==
    [type |-> "record", domain |-> <<"w">>, ttl |-> NULL, class |-> <<"I", "N">>,
     recordType |-> "A", data |-> [ip |-> <<"1", " ", "\"", "2">>]]

\* an NS record whose domain, ttl and class are wider than their columns
entryWideNS ==
    [type |-> "record", domain |-> <<"0", "1", "2", "3", "4", "5", "6", "7", "8",
     "9", "0", "1", "2", "3", "4", "5", "6", "7", "8", ".">>, ttl |-> 1234567,
     class |-> <<"C", "H", "A", "O", "S">>, recordType |-> "NS", data |-> [ns
     |-> <<"n", ".">>]]

\* an SOA record
entrySOA ==
    [type |-> "record", domain |-> <<"@">>, ttl |-> NULL, class |-> <<"I", "N">>,
     recordType |-> "SOA", data |-> [mname |-> <<"n", ".">>, rname |-> <<"r",
     ".">>, serial |-> 2020091025, refresh |-> 7200, retry |-> 3600, expire
     |-> 1209600, minimum |-> 0]]

\* an MX record
entryMX ==
    [type |-> "record", domain |-> <<"a", ".">>, ttl |-> 7, class |-> <<"I",
     "N">>, recordType |-> "MX", data |-> [priority |-> 10, mx |-> <<"m",
     ".">>]]

\* an AAAA record with the empty domain and no ttl
entryAAAA ==
    [type |-> "record", domain |-> <<>>, ttl |-> NULL, class |-> <<"I", "N">>,
     recordType |-> "AAAA", data |-> [ip |-> <<":", ":", "1">>]]

\* a CNAME record
entryCNAME ==
    [type |-> "record", domain |-> <<"w">>, ttl |-> NULL, class |-> <<"I", "N">>,
     recordType |-> "CNAME", data |-> [cname |-> <<"c", ".">>]]

\* a PTR record
entryPTR ==
    [type |-> "record", domain |-> <<"1", ".", "0">>, ttl |-> NULL, class |->
     <<"I", "N">>, recordType |-> "PTR", data |-> [ptrdname |-> <<"l", ".">>]]

\* TXT records: text with a space, with a tab, plain, with a quote, empty, with a newline
entryTXTspace ==
    [type |-> "record", domain |-> <<"w">>, ttl |-> NULL, class |-> <<"I", "N">>,
     recordType |-> "TXT", data |-> [txt |-> <<"a", " ", "b">>]]

\* TXT text with a tab
entryTXTtab ==
    [type |-> "record", domain |-> <<"w">>, ttl |-> NULL, class |-> <<"I", "N">>,
     recordType |-> "TXT", data |-> [txt |-> <<"a", "\t", "b">>]]

\* TXT text without whitespace
entryTXTplain ==
    [type |-> "record", domain |-> <<"w">>, ttl |-> NULL, class |-> <<"I", "N">>,
     recordType |-> "TXT", data |-> [txt |-> <<"a", "b">>]]

\* TXT text with a double quote and a semicolon
entryTXTquote ==
    [type |-> "record", domain |-> <<"w">>, ttl |-> NULL, class |-> <<"I", "N">>,
     recordType |-> "TXT", data |-> [txt |-> <<"a", "\"", ";", "b">>]]

\* TXT with the empty text
entryTXTempty ==
    [type |-> "record", domain |-> <<"w">>, ttl |-> 60, class |-> <<"I", "N">>,
     recordType |-> "TXT", data |-> [txt |-> <<>>]]

\* TXT text with a newline
entryTXTnewline ==
    [type |-> "record", domain |-> <<"w">>, ttl |-> NULL, class |-> <<"I", "N">>,
     recordType |-> "TXT", data |-> [txt |-> <<"a", "\n", "b">>]]

\* TXT text that holds an empty line and then a comment mark
entryTXTblankLine ==
    [type |-> "record", domain |-> <<"w">>, ttl |-> NULL, class |-> <<"I", "N">>,
     recordType |-> "TXT", data |-> [txt |-> <<"a", "\n", "\n", ";">>]]

\* an SRV record
entrySRV ==
    [type |-> "record", domain |-> <<"w">>, ttl |-> NULL, class |-> <<"I", "N">>,
     recordType |-> "SRV", data |-> [priority |-> 1, weight |-> 2, port |->
     443, target |-> <<"t", ".">>]]

\* a CAA record (value with a space)
entryCAA ==
    [type |-> "record", domain |-> <<"w">>, ttl |-> NULL, class |-> <<"I", "N">>,
     recordType |-> "CAA", data |-> [flags |-> 0, tag |-> <<"i", "s", "s",
     "u", "e">>, value |-> <<"x", " ", "y">>]]

\* a CAA record with the empty value and a tag holding a space
entryCAAempty ==
    [type |-> "record", domain |-> <<"w">>, ttl |-> NULL, class |-> <<"I", "N">>,
     recordType |-> "CAA", data |-> [flags |-> 128, tag |-> <<"i", "s", " ",
     "s", "u", "e">>, value |-> <<>>]]

\* a DNSKEY record
entryDNSKEY ==
    [type |-> "record", domain |-> <<"w">>, ttl |-> NULL, class |-> <<"I", "N">>,
     recordType |-> "DNSKEY", data |-> [flags |-> 256, protocol |-> 3,
     algorithm |-> 8, publicKey |-> <<"A", "w">>]]

\* a DS record
entryDS ==
    [type |-> "record", domain |-> <<"w">>, ttl |-> NULL, class |-> <<"I", "N">>,
     recordType |-> "DS", data |-> [keyTag |-> 1, algorithm |-> 8, digestType
     |-> 2, digest |-> <<"C", "D">>]]

\* an RRSIG record
entryRRSIG ==
    [type |-> "record", domain |-> <<"w">>, ttl |-> NULL, class |-> <<"I", "N">>,
     recordType |-> "RRSIG", data |-> [typeCovered |-> <<"A">>, algorithm |->
     8, labels |-> 2, originalTTL |-> 60, expiration |-> 3, inception |-> 4,
     keyTag |-> 5, signer |-> <<"a", ".">>, signature |-> <<"k", "R">>]]

\* an NSEC record (recordTypes not in alphabetical order)
entryNSEC ==
    [type |-> "record", domain |-> <<"w">>, ttl |-> NULL, class |-> <<"I", "N">>,
     recordType |-> "NSEC", data |-> [nextDomain |-> <<"n", ".">>, recordTypes
     |-> <<<<"N", "S">>, <<"A">>>>]]

\* a TLSA record
entryTLSA ==
    [type |-> "record", domain |-> <<"w">>, ttl |-> NULL, class |-> <<"I", "N">>,
     recordType |-> "TLSA", data |-> [usage |-> 3, selector |-> 1,
     matchingType |-> 1, certificate |-> <<"0", "C">>]]

\* an SSHFP record
entrySSHFP ==
    [type |-> "record", domain |-> <<"w">>, ttl |-> NULL, class |-> <<"I", "N">>,
     recordType |-> "SSHFP", data |-> [algorithm |-> 2, fingerprintType |-> 1,
     fingerprint |-> <<"1", "2">>]]

\* a DNAME record
entryDNAME ==
    [type |-> "record", domain |-> <<"w">>, ttl |-> NULL, class |-> <<"I", "N">>,
     recordType |-> "DNAME", data |-> [target |-> <<"t", ".">>]]

\* a NAPTR record
entryNAPTR ==
    [type |-> "record", domain |-> <<"w">>, ttl |-> NULL, class |-> <<"I", "N">>,
     recordType |-> "NAPTR", data |-> [order |-> 1, preference |-> 2, flags
     |-> <<"u">>, service |-> <<"E", "2", "U">>, regexp |-> <<"!", "^", ".",
     "*", "$", "!">>, replacement |-> <<".">>]]

\* a LOC record
entryLOC ==
    [type |-> "record", domain |-> <<"w">>, ttl |-> NULL, class |-> <<"I", "N">>,
     recordType |-> "LOC", data |-> [content |-> <<"5", "2", " ", "N", " ",
     "4", " ", "E">>]]

\* a HINFO record
entryHINFO ==
    [type |-> "record", domain |-> <<"w">>, ttl |-> NULL, class |-> <<"I", "N">>,
     recordType |-> "HINFO", data |-> [cpu |-> <<"I">>, os |-> <<"L", " ",
     "x">>]]

\* an SPF record
entrySPF ==
    [type |-> "record", domain |-> <<"w">>, ttl |-> NULL, class |-> <<"I", "N">>,
     recordType |-> "SPF", data |-> [text |-> <<"v", "=", "s", "p", "f", "1",
     " ", "-", "a", "l", "l">>]]

\* a ZONEMD record
entryZONEMD ==
    [type |-> "record", domain |-> <<"w">>, ttl |-> NULL, class |-> <<"I", "N">>,
     recordType |-> "ZONEMD", data |-> [serial |-> 1, scheme |-> 1, hashAlgo
     |-> 2, digest |-> <<"A", "B">>]]

\* one entry of every record type and both directives
EntryCatalogue == {entryOrigin, entryTtl, entryDocA, entryNoOwnerA,
                   entrySpacedA, entryWideNS, entrySOA, entryMX, entryAAAA,
                   entryCNAME, entryPTR, entryTXTspace, entryTXTtab,
                   entryTXTplain, entryTXTquote, entryTXTempty,
                   entryTXTnewline, entryTXTblankLine, entrySRV, entryCAA,
                   entryCAAempty,
                   entryDNSKEY, entryDS, entryRRSIG, entryNSEC, entryTLSA,
                   entrySSHFP, entryDNAME, entryNAPTR, entryLOC, entryHINFO,
                   entrySPF, entryZONEMD}

\* the entries that zones of several entries are built from
ZoneEntries == <<entryOrigin, entryTtl, entryDocA, entryWideNS,
                 entryTXTnewline, entryAAAA, entryTXTblankLine>>

\* the arrays handed to the serializer: every single catalogue entry, and
\* every array of up to MaxEntries zone entries
EntryArrays ==
    {<<e>> : e \in EntryCatalogue}
        \cup UNION {[1..k -> {ZoneEntries[i] : i \in 1..Len(ZoneEntries)}] :
                      k \in 0..MaxEntries}

(***************************************************************************)
(* The calls: parseZone(input, options), serializeZone(result, ...),       *)
(* serializeEntry(result[at]) and parseZone of the serialized text         *)
(***************************************************************************)
VARIABLES input, options, pc, raw, result, output, reparsed,
          includeBlankLines, at

vars == <<input, options, pc, raw, result, output, reparsed,
          includeBlankLines, at>>

Start(texts, optionSet) ==
    /\ input \in texts
    /\ options \in optionSet
    /\ pc = "start"
    /\ raw = <<>>
    /\ result = <<>>
    /\ output = <<>>
    /\ reparsed = <<>>
    /\ includeBlankLines = FALSE
    /\ at = 0

ResolveTexts == ZoneTexts(OriginLines, MaxLines)
                    \cup ZoneTexts(TtlLines, MaxLines)
                    \cup ZoneTexts(MixedLines, MaxLines)

Init == Start(ResolveTexts, OptionSet)

\* parseZone returns the entry sequence (raw: the grammar engine's output
\* before the resolution pass)
ParseZoneReturns ==
    /\ pc = "start"
    /\ LET r == parseZone(input, options)
       IN  /\ r # Throws
           /\ result' = r
    /\ raw' = ParseLines(input)
    /\ pc' = "returned"
    /\ UNCHANGED <<input, options, output, reparsed, includeBlankLines, at>>

\* parseZone throws the syntax error: no entries are returned
ParseZoneThrows ==
    /\ pc = "start"
    /\ parseZone(input, options) = Throws
    /\ pc' = "thrown"
    /\ UNCHANGED <<input, options, raw, result, output, reparsed,
                   includeBlankLines, at>>

\* serializeZone(result, {includeBlankLines}) on entries that parseZone
\* returned or that the caller built
SerializeZone ==
    /\ pc \in {"returned", "built"}
    /\ \E blankLines \in BOOLEAN :
           /\ includeBlankLines' = blankLines
           /\ output' = serializeZone(result, blankLines)
    /\ pc' = "serialized"
    /\ UNCHANGED <<input, options, raw, result, reparsed, at>>

\* parseZone(serializeZone(result)) with default options
Reparse ==
    /\ pc = "serialized"
    /\ reparsed' = parseZone(output, DefaultOptions)
    /\ pc' = "reparsed"
    /\ UNCHANGED <<input, options, raw, result, output, includeBlankLines, at>>

Next == \/ ParseZoneReturns
        \/ ParseZoneThrows
        \/ SerializeZone
        \/ Reparse

Spec == Init /\ [][Next]_vars

\* every record type, under the default options
InitTypes == Start(ZoneTexts(TypeLines, MaxTypeLines), {DefaultOptions})

SpecTypes == InitTypes /\ [][Next]_vars

\* grammar violations mixed with valid lines
InitErrors == Start(ZoneTexts(ErrorLines, MaxErrLines), OptionSet)

SpecErrors == InitErrors /\ [][Next]_vars

\* parentheses, comments and blank lines, under the default options
InitLayout == Start(ZoneTexts(LayoutLines, MaxLayoutLines), {DefaultOptions})

SpecLayout == InitLayout /\ [][Next]_vars

\* serializeEntry(result[i]) on one entry of the array
SerializeEntry ==
    /\ pc \in {"returned", "built"}
    /\ \E i \in 1..Len(result) :
           /\ at' = i
           /\ output' = serializeEntry(result[i])
    /\ pc' = "entry"
    /\ UNCHANGED <<input, options, raw, result, reparsed, includeBlankLines>>

\* the serializer on entries that the caller built
InitSerialize ==
    /\ input = <<>>
    /\ options = DefaultOptions
    /\ pc = "built"
    /\ raw = <<>>
    /\ result \in EntryArrays
    /\ output = <<>>
    /\ reparsed = <<>>
    /\ includeBlankLines = FALSE
    /\ at = 0

NextSerialize == \/ SerializeEntry
                 \/ SerializeZone

SpecSerialize == InitSerialize /\ [][NextSerialize]_vars

(***************************************************************************)
(* Properties                                                              *)
(***************************************************************************)
\* parseZone has just returned: result holds its return value, which the
\* later calls leave unchanged
Returned == pc = "returned"

IsRecord(e) == e.type = "record"

IsDirective(e) == e.type = "directive"

\* same kind, same directive name and value or same recordType, equal data
SameStructure(e, f) ==
    /\ e.type = f.type
    /\ IsDirective(e) => /\ e.name = f.name
                         /\ e.value = f.value
    /\ IsRecord(e) => /\ e.recordType = f.recordType
                      /\ e.data = f.data

\* C1: structural round trip.  For every entry sequence E returned by a
\* successful parseZone call with default options, parseZone(serializeZone(E))
\* succeeds and yields a sequence of the same length whose i-th entry has the
\* same kind, the same directive name and value or the same recordType, and
\* field-for-field equal data as the i-th entry of E.
C1_StructuralRoundTrip ==
    (pc = "reparsed" /\ options = DefaultOptions) =>
        /\ reparsed # Throws
        /\ Len(reparsed) = Len(result)
        /\ \A i \in 1..Len(result) : SameStructure(result[i], reparsed[i])

\* the logical lines of the input, one per entry of a successful parse
InputLines == LogicalLines(SplitLines(input, 1, 1), 1, FALSE, <<>>)

\* index of the last directive called name in front of entry i (0: none)
LastBefore(entries, i, name) ==
    LET S == {j \in 1..(i - 1) : /\ IsDirective(entries[j])
                                 /\ entries[j].name = name}
    IN  IF S = {} THEN 0 ELSE CHOOSE j \in S : \A k \in S : k <= j

\* C2: with inheritTTL enabled, every record that carries an explicit TTL
\* keeps exactly that TTL, and every record whose TTL is absent (records
\* with an empty domain included) receives the value of the most recent $TTL
\* directive that precedes it; no other TTL value is ever assigned.
C2_InheritTTL ==
    (Returned /\ options.inheritTTL) =>
        /\ Len(result) = Len(raw)
        /\ \A i \in 1..Len(raw) :
               IsRecord(raw[i]) =>
                   LET j == LastBefore(raw, i, "$TTL")
                   IN  /\ IsRecord(result[i])
                       /\ result[i].ttl =
                              IF raw[i].ttl # NULL THEN raw[i].ttl
                              ELSE IF j = 0 THEN NULL
                              ELSE raw[j].value

\* a record without owner name and without TTL takes the second of two
\* different $TTL values, and a record with an explicit TTL keeps it
C2_Witness ==
    /\ Returned /\ options.inheritTTL
    /\ \E i \in 1..Len(raw) :
           /\ IsRecord(raw[i]) /\ raw[i].ttl = NULL /\ raw[i].domain = <<>>
           /\ LET j == LastBefore(raw, i, "$TTL")
              IN  /\ j > 0
                  /\ LastBefore(raw, j, "$TTL") > 0
                  /\ raw[LastBefore(raw, j, "$TTL")].value # raw[j].value
                  /\ result[i].ttl = raw[j].value
    /\ \E i \in 1..Len(raw) :
           /\ IsRecord(raw[i]) /\ raw[i].ttl # NULL
           /\ LastBefore(raw, i, "$TTL") > 0
           /\ result[i].ttl = raw[i].ttl
           /\ result[i].ttl # raw[LastBefore(raw, i, "$TTL")].value

\* a name expanded against an origin that is set
Against(domain, origin) ==
    IF domain = <<"@">> THEN origin
    ELSE IF domain = <<>> \/ domain[Len(domain)] = "." THEN domain
    ELSE domain \o <<".">> \o origin

\* C3: forward-only origin.  With expandDomains enabled, for any zone with
\* $ORIGIN A and a later $ORIGIN B, every record between the two directives
\* is expanded against A and every record after the second directive is
\* expanded against B; a later $ORIGIN never changes the domain of a record
\* that precedes it.
C3_ForwardOnlyOrigin ==
    (Returned /\ options.expandDomains) =>
        /\ Len(result) = Len(raw)
        /\ \A j, k \in 1..Len(raw) :
               (/\ j < k
                /\ LastBefore(raw, k, "$ORIGIN") = j
                /\ IsDirective(raw[k]) /\ raw[k].name = "$ORIGIN") =>
                   \A i \in 1..Len(raw) :
                       (IsRecord(raw[i]) /\ IsRecord(result[i])) =>
                           /\ (j < i /\ i < k) =>
                                  result[i].domain =
                                      Against(raw[i].domain, raw[j].value)
                           /\ LastBefore(raw, i, "$ORIGIN") = k =>
                                  result[i].domain =
                                      Against(raw[i].domain, raw[k].value)

\* $ORIGIN a., a relative name, $ORIGIN b., the same relative name: the two
\* records come out with different domains
C3_Witness ==
    /\ Returned /\ options.expandDomains
    /\ \E j, k, i1, i2 \in 1..Len(raw) :
           /\ j < i1 /\ i1 < k /\ k < i2
           /\ LastBefore(raw, k, "$ORIGIN") = j
           /\ LastBefore(raw, i2, "$ORIGIN") = k
           /\ IsRecord(raw[i1]) /\ IsRecord(raw[i2])
           /\ raw[j].value # raw[k].value
           /\ raw[i1].domain = raw[i2].domain
           /\ result[i1].domain = raw[i1].domain \o <<".">> \o raw[j].value
           /\ result[i2].domain = raw[i2].domain \o <<".">> \o raw[k].value

\* C4: with expandDomains enabled, each record's output domain is the
\* current origin when the input domain is "@" and an origin is set; input
\* domain + "." + current origin when the input domain is non-empty, does
\* not end in "." and an origin is set; and the unchanged input domain in
\* every other case (fully-qualified name, empty domain, no $ORIGIN yet).
C4_ExpandDomains ==
    (Returned /\ options.expandDomains) =>
        /\ Len(result) = Len(raw)
        /\ \A i \in 1..Len(raw) :
               IsRecord(raw[i]) =>
                   LET j == LastBefore(raw, i, "$ORIGIN")
                       d == raw[i].domain
                   IN  /\ IsRecord(result[i])
                       /\ (d = <<"@">> /\ j > 0) =>
                              result[i].domain = raw[j].value
                       /\ (/\ d # <<"@">> /\ d # <<>>
                           /\ d[Len(d)] # "." /\ j > 0) =>
                              result[i].domain = d \o <<".">> \o raw[j].value
                       /\ (j = 0 \/ d = <<>> \/ d[Len(d)] = ".") =>
                              result[i].domain = d

\* one zone in which an "@" and a relative name are rewritten after the
\* $ORIGIN directive, and a relative name in front of it is left alone
C4_Witness ==
    /\ Returned /\ options.expandDomains
    /\ \E a, r, n \in 1..Len(raw) :
           /\ IsRecord(raw[a]) /\ raw[a].domain = <<"@">>
           /\ LastBefore(raw, a, "$ORIGIN") > 0
           /\ result[a].domain = raw[LastBefore(raw, a, "$ORIGIN")].value
           /\ IsRecord(raw[r]) /\ raw[r].domain = <<"w">>
           /\ LastBefore(raw, r, "$ORIGIN") > 0
           /\ result[r].domain # raw[r].domain
           /\ IsRecord(raw[n]) /\ raw[n].domain = <<"w">>
           /\ LastBefore(raw, n, "$ORIGIN") = 0
           /\ result[n].domain = <<"w">>

\* what a record line textually contains: the owner name is the first atom
\* unless the line starts with whitespace; the TTL is the integer among the
\* atoms between the owner name and the type
TextualDomain(line) == IF line.lead THEN <<>> ELSE line.toks[1].s

TextualTTL(line) ==
    LET after == IF line.lead THEN line.toks ELSE Tail(line.toks)
        T == {i \in 1..Len(after) : IsMnemonic(after[i])}
        t == CHOOSE i \in T : \A k \in T : i <= k
        I == {i \in 1..(t - 1) : IsInt(after[i])}
    IN  IF I = {} THEN NULL ELSE parseInt(after[CHOOSE i \in I : TRUE].s)

\* C5: with both options disabled or omitted (the default), parseZone never
\* rewrites anything: every record's domain and ttl are exactly what the
\* line textually contains, whatever $ORIGIN or $TTL directives the input has.
C5_DefaultNeverRewrites ==
    (Returned /\ options = DefaultOptions) =>
        /\ Len(result) = Len(InputLines)
        /\ \A i \in 1..Len(result) :
               IsRecord(result[i]) =>
                   /\ result[i].domain = TextualDomain(InputLines[i])
                   /\ result[i].ttl = TextualTTL(InputLines[i])

\* behind a $ORIGIN and a $TTL directive, a relative name stays relative and
\* an absent TTL stays null
C5_Witness ==
    /\ Returned /\ options = DefaultOptions
    /\ \E i \in 1..Len(result) :
           /\ IsRecord(result[i])
           /\ LastBefore(result, i, "$ORIGIN") > 0
           /\ LastBefore(result, i, "$TTL") > 0
           /\ result[i].domain = <<"w">> /\ result[i].ttl = NULL

IsDirectiveLine(line) ==
    /\ ~line.err
    /\ line.toks[1].k = "bare"
    /\ line.toks[1].s[1] = "$"

IsRecordLine(line) == ~line.err /\ ~IsDirectiveLine(line)

\* a $-prefixed directive that is neither $ORIGIN nor $TTL
UnknownDirective(line) ==
    /\ IsDirectiveLine(line)
    /\ line.toks[1].s \notin {DirectiveText["$ORIGIN"], DirectiveText["$TTL"]}

\* the atoms of a record line from the type token on: what follows the owner
\* name, the optional TTL and the optional class
FromType(line) ==
    LET after == IF line.lead THEN line.toks ELSE Tail(line.toks)
    IN  SubSeq(after, ParseHeader(after).used + 1, Len(after))

\* the type token is not one of the supported uppercase mnemonics
UnsupportedType(line) ==
    /\ IsRecordLine(line)
    /\ FromType(line) # <<>>
    /\ ~IsMnemonic(FromType(line)[1])

HasType(line) ==
    /\ IsRecordLine(line)
    /\ FromType(line) # <<>>
    /\ IsMnemonic(FromType(line)[1])

\* C7: the keyword sets are closed.  Parsing fails with a syntax error for
\* any line whose $-prefixed directive is not $ORIGIN or $TTL (e.g.
\* $INCLUDE), and for any record line whose type token is not one of the
\* supported uppercase mnemonics.
C7_ClosedKeywordSets ==
    (/\ pc # "start"
     /\ \E i \in 1..Len(InputLines) :
            UnknownDirective(InputLines[i]) \/ UnsupportedType(InputLines[i]))
        => pc = "thrown"

\* a zone with a valid line in front of $INCLUDE, and one with a valid line
\* in front of an unknown or lower-case type, have failed
C7_Witness ==
    /\ pc = "thrown"
    /\ Len(InputLines) = 2
    /\ ParseLine(InputLines[1]) # SyntaxError
    /\ \/ UnknownDirective(InputLines[2])
       \/ UnsupportedType(InputLines[2])

\* the rdata of a line with a recognised mnemonic has fewer fields than the
\* mnemonic requires
ShortRdata(line) ==
    /\ HasType(line)
    /\ LET f == FromType(line)
       IN  Len(f) - 1 < Len(FieldTable[MnemonicOf(f[1])])

\* a field that must be an integer holds a non-numeric token
NonNumericField(line) ==
    /\ HasType(line)
    /\ LET f == FromType(line)
           table == FieldTable[MnemonicOf(f[1])]
       IN  \E q \in 1..Len(table) :
               /\ q + 1 <= Len(f)
               /\ table[q].k = "int"
               /\ ~IsInt(f[q + 1])

FieldNames(t) == {FieldTable[t][q].n : q \in 1..Len(FieldTable[t])}

\* C8: for a record line with a recognised mnemonic, parsing fails with a
\* syntax error whenever the rdata has fewer fields than that mnemonic
\* requires, or whenever a field that must be an integer holds a non-numeric
\* token; no record with a missing or defaulted data field is ever produced.
C8_RdataErrors ==
    /\ (/\ pc # "start"
        /\ \E i \in 1..Len(InputLines) :
               ShortRdata(InputLines[i]) \/ NonNumericField(InputLines[i]))
           => pc = "thrown"
    /\ Returned =>
           \A i \in 1..Len(result) :
               IsRecord(result[i]) =>
                   /\ DOMAIN result[i].data = FieldNames(result[i].recordType)
                   /\ HasType(InputLines[i])
                   /\ ~ShortRdata(InputLines[i])
                   /\ ~NonNumericField(InputLines[i])

\* a zone whose second line has a short rdata and one whose second line has
\* a non-numeric integer field have failed
C8_Witness ==
    /\ pc = "thrown"
    /\ Len(InputLines) = 2
    /\ ParseLine(InputLines[1]) # SyntaxError
    /\ ShortRdata(InputLines[2]) \/ NonNumericField(InputLines[2])
    /\ ~UnsupportedType(InputLines[2])

\* C9: parsing is all-or-nothing.  If any line of the input violates the
\* grammar, the whole parseZone call fails with an error and returns no
\* entries, even for the valid lines that precede the offending one; a call
\* either returns the full entry sequence or fails.
C9_AllOrNothing ==
    /\ (/\ pc # "start"
        /\ \E i \in 1..Len(InputLines) : ParseLine(InputLines[i]) = SyntaxError)
           => (pc = "thrown" /\ result = <<>>)
    /\ pc = "thrown" => result = <<>>
    /\ Returned =>
           /\ Len(result) = Len(InputLines)
           /\ \A i \in 1..Len(result) : result[i].type # "error"

\* the call failed without entries although the line in front of the
\* offending one is valid
C9_Witness ==
    /\ pc = "thrown"
    /\ result = <<>>
    /\ Len(InputLines) = 2
    /\ ParseLine(InputLines[1]) # SyntaxError
    /\ ParseLine(InputLines[2]) = SyntaxError

\* C10: a record line that omits the owner-name field parses to a record
\* with domain ""; the parser never copies the previous record's domain into
\* it, and expandDomains leaves the empty domain unchanged even when an
\* origin is set.
C10_EmptyDomain ==
    Returned =>
        /\ Len(result) = Len(InputLines)
        /\ \A i \in 1..Len(result) :
               (IsRecord(result[i]) /\ InputLines[i].lead) =>
                   result[i].domain = <<>>

\* expandDomains is on, an origin is set, the record in front has an owner
\* name, and the record without owner name has the empty domain
C10_Witness ==
    /\ Returned /\ options.expandDomains
    /\ \E i \in 2..Len(result) :
           /\ IsRecord(result[i]) /\ InputLines[i].lead
           /\ LastBefore(result, i, "$ORIGIN") > 0
           /\ IsRecord(result[i - 1]) /\ result[i - 1].domain # <<>>
           /\ result[i].domain = <<>>

(***************************************************************************)
(* Properties of the lexical layout: parentheses, comments, blank lines    *)
(***************************************************************************)
\* a physical line without its ;-comment
Uncomment(line) ==
    LET S == {j \in 1..Len(line) : line[j] = ";"}
    IN  IF S = {} THEN line
        ELSE SubSeq(line, 1, (CHOOSE j \in S : \A k \in S : j <= k) - 1)

\* the parentheses of a physical line, in order
Parens(line) == SelectSeq(Uncomment(line), LAMBDA c : c \in {"(", ")"})

RECURSIVE RegionAfter(_, _)
\* the continuation region behind the parentheses: "open", "closed", or
\* "invalid" for a ")" without "(" and for a "(" inside a region
RegionAfter(parens, region) ==
    IF parens = <<>> \/ region = "invalid" THEN region
    ELSE IF Head(parens) = "("
         THEN RegionAfter(Tail(parens),
                          IF region = "closed" THEN "open" ELSE "invalid")
         ELSE RegionAfter(Tail(parens),
                          IF region = "open" THEN "closed" ELSE "invalid")

RECURSIVE RegionAtEnd(_, _, _)
\* the continuation region at the end of the text
RegionAtEnd(plines, i, region) ==
    IF i > Len(plines) THEN region
    ELSE RegionAtEnd(plines, i + 1, RegionAfter(Parens(plines[i]), region))

\* a line with each parenthesis replaced by a space
Unparen(line) ==
    [j \in 1..Len(line) |-> IF line[j] \in {"(", ")"} THEN SP ELSE line[j]]

RECURSIVE SingleLineForm(_, _, _)
\* the text with every continuation region written on one physical line:
\* comments dropped, parentheses and the newlines inside a region replaced
\* by spaces
SingleLineForm(plines, i, region) ==
    IF i > Len(plines) THEN <<>>
    ELSE LET after == RegionAfter(Parens(plines[i]), region)
         IN  Unparen(Uncomment(plines[i]))
                 \o (IF after = "open" THEN <<SP>> ELSE <<NL>>)
                 \o SingleLineForm(plines, i + 1, after)

PhysicalLines == SplitLines(input, 1, 1)

\* the number of physical lines that hold something besides whitespace
Inhabited(plines) ==
    Cardinality({i \in 1..Len(plines) :
                    \E j \in 1..Len(plines[i]) :
                        plines[i][j] \notin WhiteSpace})

\* C11: inside a parenthesis region newlines and ;-comments count as
\* whitespace, so a record spread over several physical lines between "("
\* and ")" produces exactly one entry with the same data as its single-line
\* form; an input in which a "(" is never closed fails with a syntax error.
C11_Parentheses ==
    LET atEnd == RegionAtEnd(PhysicalLines, 1, "closed")
        single == SingleLineForm(PhysicalLines, 1, "closed")
    IN  /\ (pc # "start" /\ atEnd = "open") => pc = "thrown"
        /\ (pc = "thrown" /\ atEnd = "closed") =>
               parseZone(single, options) = Throws
        /\ (Returned /\ atEnd = "closed") =>
               /\ result = parseZone(single, options)
               /\ Len(result) = Inhabited(SplitLines(single, 1, 1))

\* an SOA record spread over three physical lines, with a comment on each,
\* has come out as one entry with its seven fields
C11_Witness ==
    /\ Returned
    /\ input = TextOf(<<layOpen, layMid, layClose>>, <<1, 2, 3>>)
    /\ Len(result) = 1
    /\ result = parseZone(TextOf(<<typeSOA>>, <<1>>), options)
    /\ result[1].data.serial = 1
    /\ result[1].data.minimum = 5

\* no physical line of the input holds a parenthesis outside a comment
NoParens == \A i \in 1..Len(PhysicalLines) : Parens(PhysicalLines[i]) = <<>>

\* the physical lines of the input without their comments
Uncommented == [i \in 1..Len(PhysicalLines) |-> Uncomment(PhysicalLines[i])]

\* the input with every comment dropped
CommentFree == TextOf(Uncommented, [i \in 1..Len(Uncommented) |-> i])

\* C12: comments and blank lines produce no entries.  The number of entries
\* returned equals the number of directive and record lines, a trailing
\* ;-comment after real tokens does not change the entry parsed from that
\* line, and an input that is empty, whitespace-only or comments-only parses
\* to the empty sequence.
C12_CommentsAndBlankLines ==
    (pc # "start" /\ NoParens) =>
        /\ Returned =>
               /\ Len(result) = Inhabited(Uncommented)
               /\ result = parseZone(CommentFree, options)
        /\ pc = "thrown" => parseZone(CommentFree, options) = Throws
        /\ Inhabited(Uncommented) = 0 => (pc # "thrown" /\ result = <<>>)

\* a comment line, a blank line and a record with a trailing comment have
\* come out as the one entry of the bare record line
C12_Witness ==
    /\ Returned
    /\ input = TextOf(<<layComment, layBlank, layTrailing>>, <<1, 2, 3>>)
    /\ Len(result) = 1
    /\ result = parseZone(TextOf(<<okA>>, <<1>>), options)

(***************************************************************************)
(* Properties of the TXT and address fields                                *)
(***************************************************************************)
\* the record type of a record line with a recognised mnemonic
TypeOf(line) == MnemonicOf(FromType(line)[1])

\* the tokens behind the type
Rdata(line) == Tail(FromType(line))

AllBare(toks) == \A j \in 1..Len(toks) : toks[j].k = "bare"

\* the characters between the first and the last double quote of a line
Quotation(pline) ==
    LET Q == {j \in 1..Len(pline) : pline[j] = QUOTE}
        first == CHOOSE j \in Q : \A k \in Q : j <= k
        last == CHOOSE j \in Q : \A k \in Q : k <= j
    IN  SubSeq(pline, first + 1, last - 1)

\* the characters behind the last blank of a line
LastWord(pline) ==
    LET B == {j \in 1..Len(pline) : pline[j] \in {SP, TAB}}
        last == CHOOSE j \in B : \A k \in B : k <= j
    IN  SubSeq(pline, last + 1, Len(pline))

IsTXTLine(line) == HasType(line) /\ TypeOf(line) = "TXT"

\* C13: a TXT rdata is accepted when it is one double-quoted string (which
\* may contain whitespace and is stored without its quotes) or one unquoted
\* token; a TXT line whose unquoted text spans more than one
\* whitespace-separated token fails with a syntax error.
C13_TXTInput ==
    pc # "start" =>
        /\ (\E i \in 1..Len(InputLines) :
                /\ IsTXTLine(InputLines[i])
                /\ Len(Rdata(InputLines[i])) > 1
                /\ AllBare(Rdata(InputLines[i])))
               => pc = "thrown"
        /\ (\A i \in 1..Len(InputLines) :
                /\ IsTXTLine(InputLines[i])
                /\ Len(Rdata(InputLines[i])) = 1)
               => pc # "thrown"
        /\ Returned =>
               \A i \in 1..Len(result) :
                   IsTXTLine(InputLines[i]) =>
                       /\ IsRecord(result[i])
                       /\ result[i].recordType = "TXT"
                       /\ Len(Rdata(InputLines[i])) = 1
                       /\ result[i].data.txt =
                              IF PhysicalLines[i][Len(PhysicalLines[i])] = QUOTE
                              THEN Quotation(PhysicalLines[i])
                              ELSE LastWord(PhysicalLines[i])

\* a quoted text with a blank and an unquoted token have been stored as
\* the texts of two TXT records
C13_Witness ==
    /\ Returned
    /\ Len(result) = 2
    /\ IsTXTLine(InputLines[1]) /\ IsTXTLine(InputLines[2])
    /\ Rdata(InputLines[1])[1].k = "quoted"
    /\ result[1].data.txt = <<"a", SP, "b">>
    /\ Rdata(InputLines[2])[1].k = "bare"
    /\ result[2].data.txt = <<"a", "b">>

\* a text that holds a character outside the IPv6 textual grammar
NotIPv6Text(s) == \E j \in 1..Len(s) : s[j] \notin HexSet \cup {":", "."}

IsALine(line) == HasType(line) /\ TypeOf(line) = "A"

IsAAAALine(line) == HasType(line) /\ TypeOf(line) = "AAAA"

\* C14: address asymmetry.  An A record's ip field accepts any single token
\* without IPv4 validation (e.g. 999.999.999.999 parses to one record),
\* whereas an AAAA record whose ip token does not match IPv6 textual grammar
\* makes the parse fail.
C14_AddressAsymmetry ==
    pc # "start" =>
        /\ (\A i \in 1..Len(InputLines) :
                /\ IsALine(InputLines[i])
                /\ Len(Rdata(InputLines[i])) = 1
                /\ AllBare(Rdata(InputLines[i])))
               => pc # "thrown"
        /\ Returned =>
               \A i \in 1..Len(result) :
                   IsALine(InputLines[i]) =>
                       /\ IsRecord(result[i])
                       /\ result[i].recordType = "A"
                       /\ result[i].data.ip = LastWord(PhysicalLines[i])
        /\ (\E i \in 1..Len(InputLines) :
                /\ IsAAAALine(InputLines[i])
                /\ Len(Rdata(InputLines[i])) = 1
                /\ NotIPv6Text(Rdata(InputLines[i])[1].s))
               => pc = "thrown"

\* the zone of the one line "w A 999.999.999.999" has parsed to one record
C14_Witness ==
    /\ Returned
    /\ input = TextOf(<<okA999>>, <<1>>)
    /\ Len(result) = 1
    /\ result[1].recordType = "A"
    /\ ~IsIPv4(result[1].data.ip)
    /\ result[1].data.ip = LastWord(okA999)

(***************************************************************************)
(* Properties of the serializer                                            *)
(***************************************************************************)
\* serializeEntry has returned output for the entry result[at]
EntrySerialized == pc = "entry"

Entry == result[at]

\* a field value as text: a number in decimal, a list joined by spaces
Bare(v, t) == CASE t = "number" -> toString(v)
                [] t = "string[]" -> join(v, <<SP>>)
                [] OTHER -> v

InQuotes(s) == <<QUOTE>> \o s \o <<QUOTE>>

\* the fields the quoting policy names as always double-quoted
AlwaysQuoted(t) == CASE t = "CAA" -> {"value"}
                     [] t = "HINFO" -> {"cpu", "os"}
                     [] t = "SPF" -> {"text"}
                     [] t = "NAPTR" -> {"flags", "service", "regexp"}
                     [] OTHER -> {}

\* the rdata of a record under the quoting policy, fields in the order of
\* the data shape
PolicyRdata(record) ==
    LET t == record.recordType
        shape == DataShape[t]
        piece(i) ==
            LET v == Bare(record.data[shape[i].n], shape[i].t)
            IN  IF shape[i].n \in AlwaysQuoted(t) THEN InQuotes(v)
                ELSE IF t = "TXT" /\ \E j \in 1..Len(v) : v[j] \in {SP, TAB}
                     THEN InQuotes(v)
                ELSE v
    IN  join([i \in 1..Len(shape) |-> piece(i)], <<SP>>)

EndsWith(s, suffix) ==
    /\ Len(suffix) <= Len(s)
    /\ SubSeq(s, Len(s) - Len(suffix) + 1, Len(s)) = suffix

\* C15: serializer quoting policy.  serializeEntry wraps a TXT text in
\* double quotes if and only if the text contains a space or a tab; it
\* always double-quotes CAA value, HINFO cpu and os, SPF text and NAPTR
\* flags, service and regexp; and it emits every other rdata field of every
\* record type bare, whatever the field contains.
C15_QuotingPolicy ==
    (EntrySerialized /\ IsRecord(Entry)) =>
        EndsWith(output, trimEnd(<<SP>> \o PolicyRdata(Entry)))

\* a TXT text with a tab and no space has been written in quotes
C15_Witness ==
    /\ EntrySerialized
    /\ IsRecord(Entry)
    /\ Entry.recordType = "TXT"
    /\ includes(Entry.data.txt, TAB)
    /\ ~includes(Entry.data.txt, SP)
    /\ EndsWith(output, <<SP, QUOTE>> \o Entry.data.txt \o <<QUOTE>>)

\* s with spaces appended, or put in front, up to n characters
PadRight(s, n) == s \o [i \in 1..(n - Len(s)) |-> SP]

PadLeft(s, n) == [i \in 1..(n - Len(s)) |-> SP] \o s

\* the text of the TTL column
TtlText(record) ==
    IF record.ttl # NULL /\ record.domain # <<>> THEN toString(record.ttl)
    ELSE <<>>

\* the five columns of a record joined by single spaces, the first four
\* padded by Pad to 18, 6, 4 and 8 columns, trailing whitespace trimmed
FiveColumns(record, Pad(_, _)) ==
    trimEnd(join(<<Pad(record.domain, 18),
                   Pad(TtlText(record), 6),
                   Pad(record.class, 4),
                   Pad(MnemonicText[record.recordType], 8),
                   serializeRecordData(record)>>, <<SP>>))

\* C16 as stated: serializeEntry renders a record as five columns joined by
\* single spaces: domain padded to 18 columns, TTL padded to 6, class padded
\* to 4, record-type mnemonic padded to 8, then the type-specific rdata,
\* with trailing whitespace trimmed from the line; the columns are
\* left-padded (the padding is put in front of the value).
C16_LeftPaddedColumns ==
    (EntrySerialized /\ IsRecord(Entry)) =>
        output = FiveColumns(Entry, PadLeft)

\* C16 as amended: the same five columns, each of the first four padded on
\* its right (the value is left-aligned and the spaces are appended).
C16_FiveColumns ==
    (EntrySerialized /\ IsRecord(Entry)) =>
        output = FiveColumns(Entry, PadRight)

\* a TXT record with the empty text: domain, TTL, class and type start at
\* columns 1, 20, 27 and 32, and the line ends behind the mnemonic
C16_Witness ==
    /\ EntrySerialized
    /\ Entry = entryTXTempty
    /\ Len(output) = 34
    /\ output[1] = "w" /\ output[2] = SP
    /\ SubSeq(output, 20, 21) = <<"6", "0">>
    /\ SubSeq(output, 27, 28) = <<"I", "N">>
    /\ SubSeq(output, 32, 34) = <<"T", "X", "T">>

\* C17: serializeEntry applied to the A record {domain: 'www', ttl: 3600,
\* class: 'IN', data.ip: '192.0.2.1'} returns exactly the string given in
\* its documentation: "www", 15 spaces, "3600", 3 spaces, "IN", 4 spaces,
\* "A", 9 spaces, "192.0.2.1".
C17_DocExample ==
    (EntrySerialized /\ Entry = entryDocA) =>
        /\ output = entryDocALine
        /\ output = <<"w", "w", "w">> \o [i \in 1..15 |-> SP]
                        \o <<"3", "6", "0", "0">> \o [i \in 1..3 |-> SP]
                        \o <<"I", "N">> \o [i \in 1..4 |-> SP]
                        \o <<"A">> \o [i \in 1..9 |-> SP]
                        \o Entry.data.ip

(***************************************************************************)
(* Properties of serializeZone                                             *)
(***************************************************************************)
ZoneSerialized == pc = "serialized"

\* some string field of the entry holds a newline
HasNewline(e) ==
    IF IsDirective(e) THEN e.name = "$ORIGIN" /\ includes(e.value, NL)
    ELSE \/ includes(e.domain, NL)
         \/ includes(e.class, NL)
         \/ \E i \in 1..Len(DataShape[e.recordType]) :
                LET f == DataShape[e.recordType][i]
                IN  \/ f.t = "string" /\ includes(e.data[f.n], NL)
                    \/ /\ f.t = "string[]"
                       /\ \E j \in 1..Len(e.data[f.n]) :
                              includes(e.data[f.n][j], NL)

NoNewlines(entries) == \A i \in 1..Len(entries) : ~HasNewline(entries[i])

\* the number of newline characters of a text
Newlines(text) == Cardinality({j \in 1..Len(text) : text[j] = NL})

RECURSIVE TerminatedLines(_, _)
\* serializeEntry of the entries from the i-th on, each followed by a newline
TerminatedLines(entries, i) ==
    IF i > Len(entries) THEN <<>>
    ELSE serializeEntry(entries[i]) \o <<NL>> \o TerminatedLines(entries, i + 1)

\* C18 as stated: serializeZone without includeBlankLines emits exactly one
\* line per entry, in entry order, joined by newlines with one trailing
\* newline appended: for any sequence of n entries whose fields contain no
\* newline, the output has exactly n newline-terminated lines and the i-th
\* line equals serializeEntry of the i-th entry.
C18_OneLinePerEntryAnyLength ==
    (ZoneSerialized /\ ~includeBlankLines /\ NoNewlines(result)) =>
        /\ Newlines(output) = Len(result)
        /\ output = TerminatedLines(result, 1)

\* C18 as amended: the same for any sequence of n >= 1 entries; for the
\* empty sequence the output is the single newline (one empty line).
C18_OneLinePerEntry ==
    (ZoneSerialized /\ ~includeBlankLines /\ NoNewlines(result)) =>
        /\ Len(result) >= 1 =>
               /\ Newlines(output) = Len(result)
               /\ output = TerminatedLines(result, 1)
        /\ Len(result) = 0 => output = <<NL>>

\* a directive and two records of different types have been written as
\* three lines
C18_Witness ==
    /\ ZoneSerialized /\ ~includeBlankLines /\ NoNewlines(result)
    /\ Len(result) = 3
    /\ IsDirective(result[1]) /\ IsRecord(result[2]) /\ IsRecord(result[3])
    /\ result[2].recordType # result[3].recordType
    /\ Newlines(output) = 3
    /\ output[Len(output)] = NL

(***************************************************************************)
(* Properties of the record header and of the record-type set              *)
(***************************************************************************)
\* the atoms of a record line between the owner name and the type
HeaderTokens(line) ==
    LET after == IF line.lead THEN line.toks ELSE Tail(line.toks)
        M == {i \in 1..Len(after) : IsMnemonic(after[i])}
        t == CHOOSE i \in M : \A k \in M : i <= k
    IN  SubSeq(after, 1, t - 1)

\* the line has no class token: every atom in front of the type is the TTL
ClassOmitted(line) ==
    \A j \in 1..Len(HeaderTokens(line)) : IsInt(HeaderTokens(line)[j])

\* C19: when a record line omits the class token, the parsed record's class
\* is 'IN'; every record returned by parseZone has a non-empty class.
C19_ClassDefault ==
    Returned =>
        /\ Len(result) = Len(InputLines)
        /\ \A i \in 1..Len(result) :
               IsRecord(result[i]) =>
                   /\ result[i].class # <<>>
                   /\ ClassOmitted(InputLines[i]) =>
                          result[i].class = <<"I", "N">>

\* a line without class token (and without TTL) and a line without owner
\* name but with a TTL and a class token have both come out with class IN
C19_Witness ==
    /\ Returned
    /\ \E i, j \in 1..Len(result) :
           /\ IsRecord(result[i]) /\ IsRecord(result[j])
           /\ HeaderTokens(InputLines[i]) = <<>>
           /\ result[i].class = <<"I", "N">>
           /\ ~ClassOmitted(InputLines[j])
           /\ Len(HeaderTokens(InputLines[j])) = 2
           /\ result[j].class = <<"I", "N">>

\* the field names of a layout, in order
NamesOf(layout) == [i \in 1..Len(layout) |-> layout[i].n]

WithoutQuotes(s) == SelectSeq(s, LAMBDA c : c # QUOTE)

\* the fields of a record in the order of the catalogue, as bare text
\* joined by spaces
CatalogueRdata(record) ==
    LET shape == DataShape[record.recordType]
    IN  join([i \in 1..Len(shape) |->
                 Bare(record.data[shape[i].n], shape[i].t)], <<SP>>)

\* the record-type set is a closed n-way correspondence: n mnemonics; the
\* catalogue of data shapes, the Record union and the serializer's cases
\* name the same set; each mnemonic has one data shape, with the fields of
\* the catalogue in its order, and one rendering rule, which writes the
\* fields in that order
Correspondence(n) ==
    /\ Cardinality(Mnemonics) = n
    /\ DOMAIN FieldTable = Mnemonics
    /\ DOMAIN DataShape = Mnemonics
    /\ SerializerCases = Mnemonics
    /\ \A t \in Mnemonics : NamesOf(FieldTable[t]) = NamesOf(DataShape[t])
    /\ (EntrySerialized /\ IsRecord(Entry)) =>
           /\ Entry.recordType \in Mnemonics
           /\ DOMAIN Entry.data =
                  {DataShape[Entry.recordType][i].n :
                       i \in 1..Len(DataShape[Entry.recordType])}
           /\ EndsWith(trimEnd(WithoutQuotes(output)),
                       trimEnd(<<SP>> \o WithoutQuotes(CatalogueRdata(Entry))))

\* C20 as stated: the record-type set is a closed 21-way correspondence:
\* there are exactly 21 supported mnemonics, the set of mnemonics in the
\* data-shape catalogue, the set of members of the Record union type and the
\* set of cases rendered by the serializer are the same set, and each
\* mnemonic has exactly one data shape and one rdata rendering rule in
\* catalogue field order.
C20_TwentyOneWay == Correspondence(21)

\* C20 as amended: the same correspondence with exactly 22 mnemonics.
C20_TwentyTwoWay == Correspondence(22)

\* a ZONEMD record has been written with its four fields in catalogue order
C20_Witness ==
    /\ EntrySerialized
    /\ IsRecord(Entry)
    /\ Entry.recordType = "ZONEMD"
    /\ Len(DataShape["ZONEMD"]) = 4
    /\ EndsWith(output, <<SP>> \o toString(Entry.data.serial) \o <<SP>>
                            \o toString(Entry.data.scheme) \o <<SP>>
                            \o toString(Entry.data.hashAlgo) \o <<SP>>
                            \o Entry.data.digest)

(***************************************************************************)
(* Properties of the blank-line mode                                       *)
(***************************************************************************)
\* the physical lines of a serialized text
TextLines(text) == SplitLines(text, 1, 1)

RECURSIVE Terminated(_, _)
\* the lines from the i-th on, each followed by a newline
Terminated(lines, i) ==
    IF i > Len(lines) THEN <<>>
    ELSE lines[i] \o <<NL>> \o Terminated(lines, i + 1)

\* the text without its empty lines
WithoutEmptyLines(text) ==
    Terminated(SelectSeq(TextLines(text), LAMBDA l : l # <<>>), 1)

HasEmptyLine(text) == \E i \in 1..Len(TextLines(text)) : TextLines(text)[i] = <<>>

\* the text that the default mode gives for the same entries
PlainText == serializeZone(result, FALSE)

\* the entries serialize to text that parses
Reparseable == parseZone(PlainText, DefaultOptions) # Throws

\* C21 as stated: blank-line mode is purely cosmetic: for every entry
\* sequence E that serializes to re-parseable text,
\* parseZone(serializeZone(E, {includeBlankLines: true})) equals
\* parseZone(serializeZone(E, {includeBlankLines: false})), and removing the
\* empty lines from the first text gives the second text.
C21_CosmeticAnyText ==
    (ZoneSerialized /\ includeBlankLines /\ Reparseable) =>
        /\ parseZone(output, DefaultOptions)
               = parseZone(PlainText, DefaultOptions)
        /\ WithoutEmptyLines(output) = PlainText

\* C21 as amended: the two texts parse to the same sequence, and removing the
\* empty lines from the first text gives the second text without its own
\* empty lines, which is the second text itself when it has none.
C21_Cosmetic ==
    (ZoneSerialized /\ includeBlankLines /\ Reparseable) =>
        /\ parseZone(output, DefaultOptions)
               = parseZone(PlainText, DefaultOptions)
        /\ WithoutEmptyLines(output) = WithoutEmptyLines(PlainText)
        /\ ~HasEmptyLine(PlainText) => WithoutEmptyLines(output) = PlainText

\* blank-line mode has put a separator between two records of different
\* types, and the text parses to those records
C21_Witness ==
    /\ ZoneSerialized /\ includeBlankLines /\ Reparseable
    /\ Len(result) >= 2
    /\ IsRecord(result[1]) /\ IsRecord(result[2])
    /\ result[1].recordType # result[2].recordType
    /\ output # PlainText
    /\ ~HasEmptyLine(PlainText)
    /\ Len(parseZone(output, DefaultOptions)) = Len(result)

(***************************************************************************)
(* Properties of the resolution pass: direction, frame, independence       *)
(***************************************************************************)
\* the values of the $TTL directives in front of entry i
TTLsBefore(entries, i) ==
    {entries[j].value : j \in {k \in 1..(i - 1) :
                                  /\ IsDirective(entries[k])
                                  /\ entries[k].name = "$TTL"}}

\* C22: forward-only TTL.  With inheritTTL enabled, a record with absent TTL
\* that is not preceded by any $TTL directive keeps ttl absent (null), also
\* when a $TTL directive appears later in the input; a $TTL directive only
\* affects records that follow it (a record's ttl is its own or the value of
\* a directive in front of it).
C22_ForwardOnlyTTL ==
    (Returned /\ options.inheritTTL) =>
        \A i \in 1..Len(result) :
            IsRecord(result[i]) =>
                /\ (TextualTTL(InputLines[i]) = NULL
                        /\ TTLsBefore(result, i) = {}) =>
                       result[i].ttl = NULL
                /\ result[i].ttl \in {TextualTTL(InputLines[i])}
                                         \cup TTLsBefore(result, i)

\* a record without TTL in front of the only $TTL directive keeps ttl null,
\* and a record without TTL behind the directive takes its value
C22_Witness ==
    /\ Returned /\ options.inheritTTL
    /\ \E i, k, m \in 1..Len(result) :
           /\ i < k /\ k < m
           /\ IsRecord(result[i]) /\ TextualTTL(InputLines[i]) = NULL
           /\ TTLsBefore(result, i) = {}
           /\ IsDirective(result[k]) /\ result[k].name = "$TTL"
           /\ result[i].ttl = NULL
           /\ IsRecord(result[m]) /\ TextualTTL(InputLines[m]) = NULL
           /\ result[m].ttl = result[k].value

\* C23: the resolution pass changes nothing but domain and ttl.  For every
\* record and every option combination, class, recordType and data in
\* parseZone's output equal those of the raw parse, and directive entries
\* are identical.
C23_OnlyDomainAndTTL ==
    Returned =>
        /\ DOMAIN result = DOMAIN raw
        /\ \A i \in DOMAIN raw :
               /\ IsDirective(raw[i]) => result[i] = raw[i]
               /\ IsRecord(raw[i]) =>
                      /\ result[i].class = raw[i].class
                      /\ result[i].recordType = raw[i].recordType
                      /\ result[i].data = raw[i].data
                      /\ [result[i] EXCEPT !.domain = raw[i].domain,
                                           !.ttl = raw[i].ttl] = raw[i]

\* with both options on the pass has rewritten the domain and the ttl of a
\* record that stands behind a $ORIGIN and a $TTL directive
C23_Witness ==
    /\ Returned /\ options.expandDomains /\ options.inheritTTL
    /\ \E i \in DOMAIN raw :
           /\ IsRecord(raw[i])
           /\ LastBefore(raw, i, "$ORIGIN") > 0
           /\ LastBefore(raw, i, "$TTL") > 0
           /\ result[i].domain # raw[i].domain
           /\ result[i].ttl # raw[i].ttl
           /\ result[i].class = raw[i].class

(***************************************************************************)
(* Properties of the columns of a record line                              *)
(***************************************************************************)
\* the position of the first character of the TTL column: behind the domain
\* column (18 characters, or the whole domain when it is longer) and a space
TtlColumnAt(record) ==
    (IF Len(record.domain) > 18 THEN Len(record.domain) ELSE 18) + 2

\* the number n in decimal, most significant digit first
RECURSIVE Decimal(_)
Decimal(n) ==
    IF n < 10 THEN <<Digits[n + 1]>>
    ELSE Decimal(n \div 10) \o <<Digits[(n % 10) + 1]>>

\* C24: serializeEntry renders the TTL column as six blank characters
\* whenever the record's ttl is null or the record's domain is the empty
\* string, and as the decimal TTL otherwise; a record with empty domain and
\* a non-null ttl is therefore written without its TTL.
C24_TtlColumn ==
    (EntrySerialized /\ IsRecord(Entry)) =>
        LET c == TtlColumnAt(Entry)
            t == Decimal(Entry.ttl)
        IN  IF Entry.ttl = NULL \/ Entry.domain = <<>>
            THEN /\ Len(output) >= c + 6
                 /\ SubSeq(output, c, c + 5) = <<SP, SP, SP, SP, SP, SP>>
                 /\ output[c + 6] = SP
            ELSE /\ SubSeq(output, c, c + Len(t) - 1) = t
                 /\ output[c + Len(t)] = SP

\* the A record with the empty domain and ttl 300 has been written: the line
\* holds no "300"
C24_Witness ==
    /\ EntrySerialized /\ Entry = entryNoOwnerA
    /\ Entry.domain = <<>> /\ Entry.ttl = 300
    /\ \A j \in 1..Len(output) : output[j] # "3"

(***************************************************************************)
(* Properties of the placement of the blank lines                          *)
(***************************************************************************)
\* the index of the nearest record in front of entry i (0: none)
RecordBefore(entries, i) ==
    LET S == {j \in 1..(i - 1) : IsRecord(entries[j])}
    IN  IF S = {} THEN 0 ELSE CHOOSE j \in S : \A k \in S : k <= j

\* entry i is a record whose recordType differs from that of the record in
\* front of it
TypeChangesAt(entries, i) ==
    /\ IsRecord(entries[i])
    /\ RecordBefore(entries, i) > 0
    /\ entries[RecordBefore(entries, i)].recordType # entries[i].recordType

\* the number of blank lines up to and including the one in front of entry i
BlanksUpTo(entries, i) ==
    Cardinality({j \in 1..i : TypeChangesAt(entries, j)})

\* C25: with includeBlankLines enabled, serializeZone inserts a blank
\* separator line exactly where two consecutive records differ in recordType
\* and nowhere else: never before the first record, never between two
\* records of the same recordType, and never before a directive.  (Line
\* i + b holds entry i, where b counts the type changes up to entry i; the
\* line in front of it is empty exactly when the type changes at entry i.)
C25_BlankLinePlacement ==
    (ZoneSerialized /\ includeBlankLines /\ NoNewlines(result)
         /\ result # <<>>) =>
        LET lines == TextLines(output)
            n == Len(result)
        IN  /\ Len(lines) = n + BlanksUpTo(result, n)
            /\ \A i \in 1..n :
                   LET at_i == i + BlanksUpTo(result, i)
                   IN  /\ lines[at_i] = serializeEntry(result[i])
                       /\ lines[at_i] # <<>>
                       /\ TypeChangesAt(result, i) => lines[at_i - 1] = <<>>
            /\ Cardinality({k \in 1..Len(lines) : lines[k] = <<>>})
                   = BlanksUpTo(result, n)

\* two records of the same type and then one of another type: the only
\* blank line is the third line
C25_Witness ==
    /\ ZoneSerialized /\ includeBlankLines /\ NoNewlines(result)
    /\ Len(result) = 3
    /\ IsRecord(result[1]) /\ IsRecord(result[2]) /\ IsRecord(result[3])
    /\ result[1].recordType = result[2].recordType
    /\ result[2].recordType # result[3].recordType
    /\ Len(TextLines(output)) = 4
    /\ TextLines(output)[3] = <<>>
    /\ TextLines(output)[2] # <<>>

\* C28: in blank-line mode the serializer's last-record-type tracker is
\* updated only by records and is never reset by a directive: a record that
\* follows a directive is compared with the nearest earlier record, so for
\* the sequence record(X), directive, record(Y) with X different from Y a
\* blank line is emitted after the directive line and before record(Y), and
\* for X equal to Y none is emitted.
C28_TrackerSurvivesDirective ==
    (/\ ZoneSerialized /\ includeBlankLines /\ NoNewlines(result)
     /\ Len(result) = 3
     /\ IsRecord(result[1]) /\ IsDirective(result[2]) /\ IsRecord(result[3])) =>
        LET l1 == serializeEntry(result[1]) \o <<NL>>
            l2 == serializeEntry(result[2]) \o <<NL>>
            l3 == serializeEntry(result[3]) \o <<NL>>
        IN  IF result[1].recordType # result[3].recordType
            THEN output = l1 \o l2 \o <<NL>> \o l3
            ELSE output = l1 \o l2 \o l3

\* an A record, a directive and an NS record have been serialized: the
\* blank line is the third line, between the directive and the NS record
C28_Witness ==
    /\ ZoneSerialized /\ includeBlankLines
    /\ Len(result) = 3
    /\ result[1] = entryDocA /\ IsDirective(result[2])
    /\ result[3] = entryWideNS
    /\ Len(TextLines(output)) = 4
    /\ TextLines(output)[2] = serializeEntry(result[2])
    /\ TextLines(output)[3] = <<>>

(***************************************************************************)
(* Properties of the two options taken together                            *)
(***************************************************************************)
\* what parseZone returns for the same input under other options
With(expand, inherit) ==
    parseZone(input, [expandDomains |-> expand, inheritTTL |-> inherit])

\* C26: the two options are independent.  For every input, the ttl of every
\* record in the output depends only on inheritTTL (not on expandDomains),
\* the domain of every record depends only on expandDomains (not on
\* inheritTTL), and the result with both enabled has the domains of the
\* expandDomains-only result and the ttls of the inheritTTL-only result.
C26_OptionsIndependent ==
    Returned =>
        LET otherExpand == With(~options.expandDomains, options.inheritTTL)
            otherInherit == With(options.expandDomains, ~options.inheritTTL)
        IN  /\ Len(otherExpand) = Len(result)
            /\ Len(otherInherit) = Len(result)
            /\ \A i \in 1..Len(result) :
                   IsRecord(result[i]) =>
                       /\ result[i].ttl = otherExpand[i].ttl
                       /\ result[i].domain = otherInherit[i].domain
                       /\ (options.expandDomains /\ options.inheritTTL) =>
                              /\ result[i].domain = With(TRUE, FALSE)[i].domain
                              /\ result[i].ttl = With(FALSE, TRUE)[i].ttl

\* both options are on and one record has its domain expanded and its ttl
\* inherited: each of the two single-option results has one of the rewrites
\* and not the other
C26_Witness ==
    /\ Returned /\ options.expandDomains /\ options.inheritTTL
    /\ \E i \in 1..Len(result) :
           /\ IsRecord(result[i])
           /\ result[i].domain # raw[i].domain
           /\ result[i].ttl # raw[i].ttl
           /\ With(TRUE, FALSE)[i].ttl = raw[i].ttl
           /\ With(FALSE, TRUE)[i].domain = raw[i].domain

(***************************************************************************)
(* Properties of the round trip of the record header                       *)
(***************************************************************************)
\* the serialized text has been parsed again, into as many entries
RoundTripped ==
    /\ pc = "reparsed"
    /\ reparsed # Throws
    /\ Len(reparsed) = Len(result)

\* C27: round trip keeps the record header.  For every record of a
\* successfully parsed sequence E, the matching record of
\* parseZone(serializeZone(E)) has the same domain, the same ttl and the same
\* class, including records with an empty domain, records with an explicit
\* TTL, and records whose class was omitted in the original text.
C27_RoundTripKeepsHeader ==
    RoundTripped =>
        \A i \in 1..Len(result) :
            (IsRecord(result[i]) /\ IsRecord(reparsed[i])) =>
                /\ reparsed[i].domain = result[i].domain
                /\ reparsed[i].ttl = result[i].ttl
                /\ reparsed[i].class = result[i].class

(***************************************************************************)
(* Properties of the expanded names                                        *)
(***************************************************************************)
FullyQualified(domain) == domain # <<>> /\ domain[Len(domain)] = "."

\* the output run through the expansion rule once more, the directives
\* being those of the output
ExpandedAgain ==
    Resolve(result, [expandDomains |-> TRUE, inheritTTL |-> FALSE],
            UNSET_ORIGIN, NULL)

\* C29: with expandDomains enabled, every record that follows an $ORIGIN
\* directive whose value ends in "." (the directive in force at the record)
\* has an output domain that is either empty or ends in ".", and running the
\* expansion rule a second time over the output with the same directives
\* changes no domain (expansion is idempotent).
C29_ExpansionIdempotent ==
    (Returned /\ options.expandDomains) =>
        /\ Len(ExpandedAgain) = Len(result)
        /\ \A i \in 1..Len(result) :
               LET j == LastBefore(result, i, "$ORIGIN")
               IN  (/\ IsRecord(result[i])
                    /\ j > 0
                    /\ FullyQualified(result[j].value)) =>
                       /\ \/ result[i].domain = <<>>
                          \/ FullyQualified(result[i].domain)
                       /\ ExpandedAgain[i].domain = result[i].domain

\* behind $ORIGIN a. the names "w" and "@" have been expanded, both end in
\* "." and a second expansion leaves them alone
C29_Witness ==
    /\ Returned /\ options.expandDomains
    /\ \E i, k \in 1..Len(result) :
           /\ IsRecord(result[i]) /\ IsRecord(result[k])
           /\ LastBefore(result, i, "$ORIGIN") > 0
           /\ LastBefore(result, k, "$ORIGIN") > 0
           /\ raw[i].domain = <<"w">> /\ raw[k].domain = <<"@">>
           /\ result[i].domain # raw[i].domain
           /\ result[k].domain # raw[k].domain
           /\ FullyQualified(result[i].domain)
           /\ FullyQualified(result[k].domain)
           /\ ExpandedAgain[i].domain = result[i].domain
           /\ ExpandedAgain[k].domain = result[k].domain

(***************************************************************************)
(* Properties of the padding                                               *)
(***************************************************************************)
\* the first position from i on that holds no space (Len(s) + 1: none)
SkipSpaces(s, i) ==
    LET P == {j \in i..Len(s) : s[j] # SP}
    IN  IF P = {} THEN Len(s) + 1 ELSE CHOOSE j \in P : \A k \in P : j <= k

RECURSIVE After(_, _, _)
\* the position behind the columns cols when line, read from position i on,
\* holds each non-empty column in full, in order, each followed by a space
\* or by the end of the line; 0 when it does not
After(line, i, cols) ==
    IF cols = <<>> THEN i
    ELSE LET c == Head(cols)
             p == SkipSpaces(line, i)
             q == p + Len(c)
         IN  IF c = <<>> THEN After(line, i, Tail(cols))
             ELSE IF /\ q - 1 <= Len(line)
                     /\ SubSeq(line, p, q - 1) = c
                     /\ (q > Len(line) \/ line[q] = SP)
                  THEN After(line, q + 1, Tail(cols))
                  ELSE 0

\* the four header columns of a record, as text
HeaderColumns(record) ==
    <<record.domain, TtlText(record), record.class,
      MnemonicText[record.recordType]>>

\* C30: column padding never truncates and never merges columns.  For a
\* record whose domain, TTL text, class or mnemonic is longer than its
\* column width (18, 6, 4, 8), serializeEntry emits the field in full, and in
\* every serialized record line each pair of adjacent non-empty columns is
\* separated by at least one space.
C30_PaddingKeepsColumns ==
    (EntrySerialized /\ IsRecord(Entry)) =>
        After(output, 1, HeaderColumns(Entry)) > 0

\* the NS record whose domain (20 characters), ttl (7 digits) and class (5
\* characters) are wider than their columns has been written
C30_Witness ==
    /\ EntrySerialized /\ Entry = entryWideNS
    /\ Len(Entry.domain) > 18
    /\ Len(TtlText(Entry)) > 6
    /\ Len(Entry.class) > 4
    /\ After(output, 1, HeaderColumns(Entry)) > 0
    /\ Len(output) > 18 + 1 + 6 + 1 + 4 + 1 + 8 + 1

====
